---- MODULE Spec2Model ----
(***************************************************************************)
(* The asset life-cycle validator of the asset registry (CheckAssetInputs) *)
(* together with the asset store it reads and writes (CAssetDB), the lazy  *)
(* expiry read (GetAsset) and the expiration policy (GetAssetExpiration).  *)
(*                                                                         *)
(* Byte strings whose length or prefix the validator inspects (name,       *)
(* public data, category) are sequences of characters; asset ids, alias    *)
(* ids are opaque strings, "" being the empty byte string.  A transaction  *)
(* hash is the index of the transaction in TxPool, so that two             *)
(* transactions have the same hash exactly when they are the same          *)
(* transaction; 0 is the null hash of a null record.                       *)
(***************************************************************************)
EXTENDS Integers, Sequences, FiniteSets, TLC

VARIABLES
    cur,        \* "asseti" rows: asset id -> current record
    prev,       \* "assetp" rows: asset id -> previous-version snapshot
    lock,       \* "assetl" rows: the ids whose settlement (instant-send) lock is set
    aliasHist,  \* alias activity history rows, keyed by transaction hash
    assetHist,  \* asset history rows of the read-model, keyed by transaction hash
    now,        \* chainActive.Tip()->GetMedianTimePast()
    nCalls,     \* number of validations run so far
    ret,        \* value returned by the last CheckAssetInputs call
    errorMessage, \* errorMessage left by the last CheckAssetInputs call
    returnedAt, \* source line of the return statement that call took
    servicesCleaned, \* the counter CleanupDatabase adds to
    twins,      \* the same node run with a failing and with no read-model mirror
    sent,       \* the record a transaction's payload was built from
    payload,    \* the auxiliary payload of that transaction and its commitment
    txAsset,    \* the CAsset object UnserializeFromTx is called on
    unserialized, \* value returned by the last UnserializeFromTx call
    codecPc,    \* how far the payload has travelled
    vout,       \* the output scripts of the transaction being decoded, as tokens
    decodedScript, \* what DecodeAssetScript handed back for the first output
    strippedScript, \* what RemoveAssetScriptPrefix handed back for it
    decodedTx,  \* what DecodeAssetTx handed back for the transaction
    scriptPc,   \* which of the script functions ran last
    sweepPc,    \* where the thread running CleanupDatabase stands
    sweepKeys,  \* the keys its cursor has not passed yet
    sweepDue,   \* what the test of line 220 gave for the key under the cursor
    interruptRequested, \* another thread has asked the sweep thread to stop
    corrupt     \* the stored keys whose bytes no longer deserialize

storeVars == <<cur, prev, lock, aliasHist, assetHist, now, nCalls, ret, errorMessage, returnedAt,
               servicesCleaned, twins>>

codecVars == <<sent, payload, txAsset, unserialized, codecPc>>

scriptVars == <<vout, decodedScript, strippedScript, decodedTx, scriptPc>>

sweepVars == <<sweepPc, sweepKeys, sweepDue, interruptRequested, corrupt>>

vars == <<storeVars, codecVars, scriptVars, sweepVars>>

(***************************************************************************)
(* Bounds of the exploration.                                              *)
(***************************************************************************)
MaxHeight == 2
MaxCalls == 2

(***************************************************************************)
(* Length limits of the record fields.                                     *)
(***************************************************************************)
MAX_ID_LENGTH == 20
MAX_VALUE_LENGTH == 256
MAX_NAME_LENGTH == 256

OP_ASSET_ACTIVATE == "OP_ASSET_ACTIVATE"
OP_ASSET_UPDATE == "OP_ASSET_UPDATE"
OP_ASSET_TRANSFER == "OP_ASSET_TRANSFER"
OP_ASSET_MINT == "OP_ASSET_MINT"

IsAssetOp(op) ==
    \/ op = OP_ASSET_ACTIVATE
    \/ op = OP_ASSET_MINT
    \/ op = OP_ASSET_UPDATE
    \/ op = OP_ASSET_TRANSFER

(***************************************************************************)
(* Byte strings.                                                           *)
(***************************************************************************)
Fill(n) == [i \in 1..n |-> "x"]

ToLowerChar(ch) == IF ch = "A" THEN "a" ELSE ch

ToLower(s) == [i \in 1..Len(s) |-> ToLowerChar(s[i])]

\* boost::algorithm::starts_with
StartsWith(s, p) == Len(s) >= Len(p) /\ SubSeq(s, 1, Len(p)) = p

\* boost::algorithm::istarts_with
IStartsWith(s, p) == StartsWith(ToLower(s), ToLower(p))

AssetsPrefix == <<"a", "s", "s", "e", "t", "s">>

CatAssets == AssetsPrefix
CatNew == AssetsPrefix \o <<"/", "n">>
CatUpper == <<"A", "s", "s", "e", "t", "s">>
CatOther == <<"o", "t", "h", "e", "r">>
CatLong == AssetsPrefix \o Fill(MAX_NAME_LENGTH)

NameN1 == <<"W", "i", "d", "g", "e", "t">>
NameN2 == <<"G", "e", "a", "r">>
NameLong == Fill(MAX_ID_LENGTH + 1)

PubP1 == <<"p", "1">>
PubP2 == <<"p", "2">>
PubLong == Fill(MAX_VALUE_LENGTH + 1)

(***************************************************************************)
(* The identity registry the validator consults.  A accepts asset          *)
(* transfers and holds a lease that ends at time 1; B does not accept      *)
(* asset transfers and has no unprunable record.  No other alias exists.   *)
(***************************************************************************)
AliasRegistry ==
    [A |-> [acceptsAssets |-> TRUE, hasUnprunable |-> TRUE, nExpireTime |-> 1],
     B |-> [acceptsAssets |-> FALSE, hasUnprunable |-> FALSE, nExpireTime |-> 0]]

GetAlias(vchAlias) == vchAlias \in DOMAIN AliasRegistry

\* mutant: the transfer-acceptance flag is not consulted
AcceptsAnyTransfer(vchAlias) == TRUE

AcceptsAssetTransfers(vchAlias) == AliasRegistry[vchAlias].acceptsAssets

(***************************************************************************)
(* CAsset.                                                                 *)
(***************************************************************************)
Asset(id, alias, name, pub, cat, link, h, txh) ==
    [vchAsset |-> id, vchAlias |-> alias, vchName |-> name, vchPubData |-> pub,
     sCategory |-> cat, vchLinkAlias |-> link, nHeight |-> h, txHash |-> txh]

NullAsset == Asset("", "", <<>>, <<>>, <<>>, "", 0, 0)

IsNull(asset) == asset.vchAsset = ""

(***************************************************************************)
(* The transactions offered to the validator.  Each carries the operation  *)
(* decoded from its script and the asset record of its data payload; all   *)
(* of them name the asset "X".  The hash of TxPool[i] is i.                *)
(***************************************************************************)
Tx(op, alias, name, pub, cat, link) ==
    [op |-> op, asset |-> Asset("X", alias, name, pub, cat, link, 0, 0)]

TxPool ==
    << Tx(OP_ASSET_ACTIVATE, "A", NameN1, PubP1, CatAssets, ""),
       Tx(OP_ASSET_ACTIVATE, "B", NameN2, <<>>, CatAssets, ""),
       Tx(OP_ASSET_ACTIVATE, "A", <<>>, PubP1, CatAssets, ""),
       Tx(OP_ASSET_ACTIVATE, "A", NameLong, PubP1, CatAssets, ""),
       Tx(OP_ASSET_ACTIVATE, "A", NameN1, PubLong, CatAssets, ""),
       Tx(OP_ASSET_ACTIVATE, "A", NameN1, PubP1, CatOther, ""),
       Tx(OP_ASSET_ACTIVATE, "A", NameN1, PubP1, CatUpper, ""),
       Tx(OP_ASSET_ACTIVATE, "A", NameN1, PubP1, CatLong, ""),
       Tx(OP_ASSET_ACTIVATE, "A", NameN1, PubP1, CatAssets, "B"),
       Tx(OP_ASSET_UPDATE, "A", <<>>, PubP2, <<>>, ""),
       Tx(OP_ASSET_UPDATE, "A", <<>>, <<>>, CatNew, ""),
       Tx(OP_ASSET_UPDATE, "B", <<>>, PubP2, <<>>, ""),
       Tx(OP_ASSET_UPDATE, "A", NameN2, PubP2, <<>>, ""),
       Tx(OP_ASSET_UPDATE, "A", <<>>, <<>>, CatOther, ""),
       Tx(OP_ASSET_UPDATE, "A", <<>>, <<>>, CatUpper, ""),
       Tx(OP_ASSET_UPDATE, "A", <<>>, PubLong, <<>>, ""),
       Tx(OP_ASSET_TRANSFER, "A", <<>>, <<>>, <<>>, "A"),
       Tx(OP_ASSET_TRANSFER, "A", <<>>, <<>>, <<>>, "B"),
       Tx(OP_ASSET_TRANSFER, "A", <<>>, <<>>, <<>>, "Z"),
       Tx(OP_ASSET_TRANSFER, "A", <<>>, <<>>, <<>>, ""),
       Tx(OP_ASSET_TRANSFER, "B", <<>>, PubP2, <<>>, "A"),
       Tx(OP_ASSET_TRANSFER, "B", <<>>, <<>>, <<>>, "B"),
       Tx(OP_ASSET_MINT, "A", <<>>, <<>>, <<>>, ""),
       Tx(OP_ASSET_MINT, "B", <<>>, PubP2, <<>>, "") >>

TxHashes == 1..Len(TxPool)

(***************************************************************************)
(* One CheckAssetInputs call.  tx is the hash of the transaction;          *)
(* vvchArgs is the argument vector of its asset script (commitment hashes, *)
(* the commitment of TxPool[i] being i); vvchAliasArgs is the argument     *)
(* vector of its alias input.                                              *)
(***************************************************************************)
Call(tx, fJustCheck, nHeight, dontaddtodb, isCoinBase, versionOk, dataOk, vvchArgs, vvchAliasArgs) ==
    [tx |-> tx, fJustCheck |-> fJustCheck, nHeight |-> nHeight,
     dontaddtodb |-> dontaddtodb, isCoinBase |-> isCoinBase,
     versionOk |-> versionOk, dataOk |-> dataOk,
     vvchArgs |-> vvchArgs, vvchAliasArgs |-> vvchAliasArgs]

\* a well-formed asset transaction, as the wallet builds it
PlainCall(tx, fJustCheck, nHeight, dontaddtodb) ==
    Call(tx, fJustCheck, nHeight, dontaddtodb, FALSE, TRUE, TRUE,
         <<tx>>, <<TxPool[tx].asset.vchAlias>>)

Heights == 1..MaxHeight

PlainCalls ==
    { PlainCall(tx, j, h, d) : tx \in TxHashes, j \in BOOLEAN, h \in Heights, d \in BOOLEAN }

\* the same transactions with one structural defect each
MalformedCalls ==
    UNION { { Call(tx, j, 1, d, TRUE, TRUE, TRUE, <<tx>>, <<TxPool[tx].asset.vchAlias>>),
              Call(tx, j, 1, d, FALSE, FALSE, TRUE, <<tx>>, <<TxPool[tx].asset.vchAlias>>),
              Call(tx, j, 1, d, FALSE, TRUE, FALSE, <<tx>>, <<TxPool[tx].asset.vchAlias>>),
              Call(tx, j, 1, d, FALSE, TRUE, TRUE, <<>>, <<TxPool[tx].asset.vchAlias>>),
              Call(tx, j, 1, d, FALSE, TRUE, TRUE, <<tx, tx>>, <<TxPool[tx].asset.vchAlias>>),
              Call(tx, j, 1, d, FALSE, TRUE, TRUE, <<tx + 1>>, <<TxPool[tx].asset.vchAlias>>),
              Call(tx, j, 1, d, FALSE, TRUE, TRUE, <<tx>>, <<"Z">>) }
            : tx \in {1, 10}, j \in BOOLEAN, d \in BOOLEAN }

Calls == PlainCalls \cup MalformedCalls

(***************************************************************************)
(* Error messages: the ERRCODE and the text that follows it.               *)
(***************************************************************************)
Err(code, text) == [code |-> code, text |-> text]

NoError == Err(0, "")

(***************************************************************************)
(* CAssetDB.  A database is the record of its tables.                      *)
(***************************************************************************)
\* the read-model mirror of a node: connected and answering, connected and
\* refusing every request, or not configured (asset_collection is null)
MirrorModes == {"up", "failing", "absent"}

DB == [cur |-> cur, prev |-> prev, lock |-> lock,
       aliasHist |-> aliasHist, assetHist |-> assetHist, mirror |-> "up"]

\* a request to the mirror has an effect there
MirrorApplies(db) == db.mirror = "up"

Put(table, key, value) ==
    [k \in DOMAIN table \cup {key} |-> IF k = key THEN value ELSE table[k]]

Del(table, key) == [k \in DOMAIN table \ {key} |-> table[k]]

ExistsAsset(db, vchAsset) == vchAsset \in DOMAIN db.cur

ReadISLock(db, vchAsset) == vchAsset \in db.lock

EraseISLock(db, vchAsset) == [db EXCEPT !.lock = @ \ {vchAsset}]

ExistsLastAsset(db, vchAsset) == vchAsset \in DOMAIN db.prev

WriteLastAsset(db, vchAsset, asset) == [db EXCEPT !.prev = Put(@, vchAsset, asset)]

\* mongoc_collection_insert keyed by _id = transaction hash: a second
\* document with the same _id is refused
WriteAssetIndexHistory(db, asset) ==
    IF ~MirrorApplies(db) \/ \E row \in db.assetHist : row.txid = asset.txHash
    THEN db
    ELSE [db EXCEPT !.assetHist = @ \cup {[txid |-> asset.txHash, asset |-> asset.vchAsset]}]

\* remove by _id
EraseAssetIndexHistoryTx(db, txid) ==
    IF ~MirrorApplies(db)
    THEN db
    ELSE [db EXCEPT !.assetHist = {row \in @ : row.txid # txid}]

\* mutant: a document the mirror did not take is withdrawn from the store
WriteAssetIndexOrUndo(db, asset) ==
    IF MirrorApplies(db)
    THEN WriteAssetIndexHistory(db, asset)
    ELSE [db EXCEPT !.cur = Del(@, asset.vchAsset)]

\* the upsert of the asset document, then the history row; a failure of
\* either is logged and nothing else
WriteAssetIndex(db, asset) == WriteAssetIndexHistory(db, asset)

WriteAliasIndexTxHistory(db, txid) == [db EXCEPT !.aliasHist = @ \cup {txid}]

EraseAliasIndexTxHistory(db, txid) == [db EXCEPT !.aliasHist = @ \ {txid}]

WriteAsset(db, asset, prevAsset, fJustCheck) ==
    LET d1 == [db EXCEPT !.cur = Put(@, asset.vchAsset, asset)]
        d2 == IF ~fJustCheck /\ ~IsNull(prevAsset)
              THEN WriteLastAsset(d1, asset.vchAsset, prevAsset)
              ELSE IF fJustCheck
                   THEN [d1 EXCEPT !.lock = @ \cup {asset.vchAsset}]
                   ELSE d1
    IN WriteAssetIndex(d2, asset)

\* remove the history rows of an asset
EraseAssetIndexHistory(db, vchAsset) ==
    IF ~MirrorApplies(db)
    THEN db
    ELSE [db EXCEPT !.assetHist = {row \in @ : row.asset # vchAsset}]

EraseAssetIndex(db, vchAsset) == EraseAssetIndexHistory(db, vchAsset)

EraseAsset(db, vchAsset) ==
    LET d1 == [db EXCEPT !.cur = Del(@, vchAsset)]
        d2 == [d1 EXCEPT !.prev = Del(@, vchAsset)]
    IN EraseAssetIndex(EraseISLock(d2, vchAsset), vchAsset)

(***************************************************************************)
(* Expiration policy and lazy-expiry read.                                 *)
(***************************************************************************)
GetAssetExpiration(asset) ==
    IF asset.vchAlias \in DOMAIN AliasRegistry /\ AliasRegistry[asset.vchAlias].hasUnprunable
    THEN AliasRegistry[asset.vchAlias].nExpireTime
    ELSE now + 1

\* mutant: a record is still read at the instant its lease ends
IsExpiredLate(asset) == now > GetAssetExpiration(asset)

IsExpired(asset) == now >= GetAssetExpiration(asset)

\* the returned txPos is what the caller's output record holds afterwards
GetAsset(db, vchAsset, txPos) ==
    IF ~ExistsAsset(db, vchAsset)
    THEN [ok |-> FALSE, txPos |-> txPos]
    ELSE IF IsExpired(db.cur[vchAsset])
         THEN [ok |-> FALSE, txPos |-> NullAsset]
         ELSE [ok |-> TRUE, txPos |-> db.cur[vchAsset]]

(***************************************************************************)
(* CleanupDatabase.  The cursor visits the keys in byte order; KeyOrder is *)
(* the asset ids in that order.                                            *)
(***************************************************************************)
KeyOrder == <<"", "X", "Y", "Z">>

\* mutant: the sweep erases every id it visits
SweepErasesAll(db, vchAsset) == TRUE

\* the test made on one "asseti" key
SweepErases(db, vchAsset) ==
    LET got == GetAsset(db, vchAsset, NullAsset)
    IN ~got.ok \/ now >= GetAssetExpiration(got.txPos)

RECURSIVE SweepFrom(_, _, _)
SweepFrom(db, keys, count) ==
    IF keys = << >>
    THEN [ret |-> TRUE, db |-> db, servicesCleaned |-> count]
    ELSE IF SweepErases(db, Head(keys))
         THEN SweepFrom(EraseAsset(db, Head(keys)), Tail(keys), count + 1)
         ELSE SweepFrom(db, Tail(keys), count)

CleanupDatabase(db, count) ==
    SweepFrom(db, SelectSeq(KeyOrder, LAMBDA k : k \in DOMAIN db.cur), count)

(***************************************************************************)
(* CheckAssetInputs.  Each stage either ends the call (done) with a        *)
(* return value and an error message, or hands on to the next stage.       *)
(***************************************************************************)
Return(r, e, line, db) == [ret |-> r, errorMessage |-> e, line |-> line, db |-> db]

\* line is the source line of the return statement taken
Stop(r, e, line) == [done |-> TRUE, ret |-> r, errorMessage |-> e, line |-> line]

Pass == [done |-> FALSE, ret |-> TRUE, errorMessage |-> NoError, line |-> 0]

\* the coinbase skip, the transaction format, the payload and its
\* commitment, the argument vector, the alias input
PreChecks(c) ==
    LET theAsset == TxPool[c.tx].asset
        vchHash == c.tx
    IN IF c.isCoinBase /\ ~c.fJustCheck /\ ~c.dontaddtodb
       THEN Stop(TRUE, NoError, 340)
       ELSE IF ~c.versionOk
       THEN Stop(TRUE, Err(2000, "Non-Syscoin transaction found"), 350)
       ELSE IF ~c.dataOk
       THEN Stop(TRUE, Err(2001, "Cannot unserialize data inside of this transaction relating to a asset"), 360)
       ELSE IF c.fJustCheck /\ Len(c.vvchArgs) # 1
       THEN Stop(FALSE, Err(2002, "Asset arguments incorrect size"), 368)
       ELSE IF c.fJustCheck /\ vchHash # c.vvchArgs[1]
       THEN Stop(TRUE, Err(2003, "Hash provided doesn't match the calculated hash of the data"), 375)
       ELSE IF theAsset.vchAlias # c.vvchAliasArgs[1]
       THEN Stop(~c.fJustCheck, Err(4003, "Alias input mismatch"), IF c.fJustCheck THEN 382 ELSE 384)
       ELSE Pass

\* the rules applied to the supplied record when fJustCheck is set
StrictChecks(op, theAsset) ==
    IF Len(theAsset.sCategory) > MAX_NAME_LENGTH
    THEN Stop(FALSE, Err(2005, "Asset category too big"), 394)
    ELSE IF Len(theAsset.vchPubData) > MAX_VALUE_LENGTH
    THEN Stop(FALSE, Err(2007, "Asset public data too big"), 399)
    ELSE IF op = OP_ASSET_ACTIVATE
    THEN IF theAsset.vchLinkAlias # ""
         THEN Stop(FALSE, Err(2010, "Asset linked alias not allowed in activate"), 406)
         ELSE IF Len(theAsset.vchName) > MAX_ID_LENGTH \/ theAsset.vchName = <<>>
         THEN Stop(FALSE, Err(2012, "Asset title too big or is empty"), 411)
         ELSE IF ~StartsWith(theAsset.sCategory, AssetsPrefix)
         THEN Stop(TRUE, Err(2013, "Must use a asset category"), 416)
         ELSE Pass
    ELSE IF op = OP_ASSET_UPDATE
    THEN IF theAsset.vchName # <<>>
         THEN Stop(FALSE, Err(2015, "Asset name cannot be changed"), 424)
         ELSE IF Len(theAsset.sCategory) > 0 /\ ~IStartsWith(theAsset.sCategory, AssetsPrefix)
         THEN Stop(TRUE, Err(2017, "Must use a asset category"), 429)
         ELSE Pass
    ELSE IF op = OP_ASSET_TRANSFER
    THEN Pass
    ELSE Stop(FALSE, Err(2021, "Asset transaction has unknown op"), 438)

\* the height test applied while the settlement lock is being reconciled
LockedHeightRefused(dbHeight, nHeight) == dbHeight >= nHeight

\* mutant: a candidate at the stored height is refused as well
HeightRefusedOrEqual(dbHeight, nHeight) == dbHeight >= nHeight

\* the height test applied otherwise
HeightRefused(dbHeight, nHeight) == dbHeight > nHeight

\* the record the candidate is applied to once the stored hash differs
RollbackBase(db, op, vchAsset, dbAsset) ==
    IF op # OP_ASSET_ACTIVATE /\ ~ExistsLastAsset(db, vchAsset)
    THEN NullAsset
    ELSE IF op # OP_ASSET_ACTIVATE
         THEN db.prev[vchAsset]
         ELSE dbAsset

\* mutant: the rollback of a superseded transaction ignores dontaddtodb
PurgeSupersededAlways(db, vchAsset, txid, dontaddtodb) ==
    EraseAssetIndexHistoryTx(EraseAliasIndexTxHistory(EraseISLock(db, vchAsset), txid), txid)

\* the store effects of finding a differing hash under the lock
PurgeSuperseded(db, vchAsset, txid, dontaddtodb) ==
    IF dontaddtodb
    THEN db
    ELSE EraseAssetIndexHistoryTx(
             EraseAliasIndexTxHistory(EraseISLock(db, vchAsset), txid), txid)

\* mutant: the snapshot is not persisted when the candidate is already applied
AlreadyAppliedNoSnapshot(db, vchAsset, dbAsset, dontaddtodb) ==
    IF dontaddtodb
    THEN db
    ELSE EraseISLock(db, vchAsset)

\* the store effects of finding the candidate already applied
AlreadyApplied(db, vchAsset, dbAsset, dontaddtodb) ==
    IF dontaddtodb
    THEN db
    ELSE EraseISLock(WriteLastAsset(db, vchAsset, dbAsset), vchAsset)

\* the read of the stored record, the settlement-lock reconciliation and
\* the height rule; hands on the base record dbAsset and the store
ReadAndReconcile(c, db) ==
    LET op == TxPool[c.tx].op
        vchAsset == TxPool[c.tx].asset.vchAsset
        got == GetAsset(db, vchAsset, NullAsset)
        dbAsset == got.txPos
        go(base, d) == [done |-> FALSE, ret |-> TRUE, errorMessage |-> NoError,
                        line |-> 0, dbAsset |-> base, db |-> d]
        end(e, line, d) == [done |-> TRUE, ret |-> TRUE, errorMessage |-> e,
                            line |-> line, dbAsset |-> dbAsset, db |-> d]
    IN IF ~got.ok
       THEN IF op # OP_ASSET_ACTIVATE
            THEN end(Err(2022, "Failed to read from asset DB"), 453, db)
            ELSE go(dbAsset, db)
       ELSE IF ~c.fJustCheck /\ ReadISLock(db, vchAsset)
       THEN IF LockedHeightRefused(dbAsset.nHeight, c.nHeight)
            THEN end(Err(2026, "Block height of service request must be less than or equal to the stored service block height."), 463, db)
            ELSE IF dbAsset.txHash # c.tx
            THEN go(RollbackBase(db, op, vchAsset, dbAsset),
                    PurgeSuperseded(db, vchAsset, dbAsset.txHash, c.dontaddtodb))
            ELSE end(NoError, 505, AlreadyApplied(db, vchAsset, dbAsset, c.dontaddtodb))
       ELSE IF HeightRefused(dbAsset.nHeight, c.nHeight)
       THEN end(Err(2026, "Block height of service request cannot be lower than stored service block height."), 511, db)
       ELSE go(dbAsset, db)

\* mutant: omitted public data and category are not carried forward
InheritNameOnly(theAsset, dbAsset) ==
    [theAsset EXCEPT !.vchName = dbAsset.vchName]

\* fields an update, transfer or mint leaves out are taken from the base
Inherit(theAsset, dbAsset) ==
    [theAsset EXCEPT
        !.vchPubData = IF @ = <<>> THEN dbAsset.vchPubData ELSE @,
        !.vchName = dbAsset.vchName,
        !.sCategory = IF @ = <<>> THEN dbAsset.sCategory ELSE @]

\* "change asset ownership"
ChangeOwnership(theAsset) == [theAsset EXCEPT !.vchAlias = theAsset.vchLinkAlias]

\* "Asset owner must sign off on this change"
OwnerMismatch(dbAsset, theAsset) == dbAsset.vchAlias # theAsset.vchAlias

\* the refusal of an activate for an id that exists
ActivateExistsRefused(fJustCheck, found) == fJustCheck /\ found

\* the per-operation rules against the base record; hands on the record
\* to be written
ApplyOperation(c, dbAsset, db) ==
    LET op == TxPool[c.tx].op
        theAsset == TxPool[c.tx].asset
        go(a) == [done |-> FALSE, ret |-> TRUE, errorMessage |-> NoError,
                  line |-> 0, theAsset |-> a]
        end(e, line) == [done |-> TRUE, ret |-> TRUE, errorMessage |-> e,
                         line |-> line, theAsset |-> theAsset]
    IN IF op # OP_ASSET_ACTIVATE
       THEN LET a1 == Inherit(theAsset, dbAsset)
                a2 == IF op = OP_ASSET_TRANSFER THEN ChangeOwnership(a1) ELSE a1
            IN IF op = OP_ASSET_TRANSFER /\ ~GetAlias(a1.vchLinkAlias)
               THEN end(Err(2024, "Cannot find alias you are transferring to."), 528)
               ELSE IF op = OP_ASSET_TRANSFER /\ ~AcceptsAssetTransfers(a1.vchLinkAlias)
               THEN end(Err(2025, "The alias you are transferring to does not accept assets"), 536)
               ELSE IF op \in {OP_ASSET_UPDATE, OP_ASSET_TRANSFER} /\ OwnerMismatch(dbAsset, a2)
               THEN end(Err(2026, "Cannot edit this asset. Asset owner must sign off on this change."), 544)
               ELSE go(a2)
       ELSE LET got == IF c.fJustCheck
                       THEN GetAsset(db, theAsset.vchAsset, theAsset)
                       ELSE [ok |-> FALSE, txPos |-> theAsset]
            IN IF ActivateExistsRefused(c.fJustCheck, got.ok)
               THEN end(Err(2027, "Asset already exists"), 553)
               ELSE go(got.txPos)

\* GetSyscoinTransactionDescription: the operations that have one
HasDescription(op) == op \in {OP_ASSET_ACTIVATE, OP_ASSET_UPDATE, OP_ASSET_TRANSFER}

\* mutant: the link alias stays in the record that is written
StampKeepsLink(theAsset, nHeight, txid) ==
    [theAsset EXCEPT !.nHeight = nHeight, !.txHash = txid]

\* the record as it is written: transient field cleared, height and hash stamped
Stamp(theAsset, nHeight, txid) ==
    [theAsset EXCEPT !.vchLinkAlias = "", !.nHeight = nHeight, !.txHash = txid]

\* the write path
StoreOperation(c, theAsset, dbAsset, db) ==
    LET op == TxPool[c.tx].op
        d1 == IF ~c.dontaddtodb /\ HasDescription(op)
              THEN WriteAliasIndexTxHistory(db, c.tx)
              ELSE db
        stamped == Stamp(theAsset, c.nHeight, c.tx)
    IN IF ~c.dontaddtodb
       THEN WriteAsset(d1, stamped, dbAsset, c.fJustCheck)
       ELSE d1

\* the stages after the structural checks, on the outcome of each
Finish(c, rec, app) ==
    IF app.done
    THEN Return(app.ret, app.errorMessage, app.line, rec.db)
    ELSE Return(TRUE, NoError, 583,
                StoreOperation(c, app.theAsset, rec.dbAsset, rec.db))

Continue(c, rec) ==
    IF rec.done
    THEN Return(rec.ret, rec.errorMessage, rec.line, rec.db)
    ELSE Finish(c, rec, ApplyOperation(c, rec.dbAsset, rec.db))

Begin(c, db, pre, strict) ==
    IF pre.done
    THEN Return(pre.ret, pre.errorMessage, pre.line, db)
    ELSE IF strict.done
    THEN Return(strict.ret, strict.errorMessage, strict.line, db)
    ELSE Continue(c, ReadAndReconcile(c, db))

\* CheckAssetInputs run against the database db
CheckAssetInputs(db, c) ==
    Begin(c, db, PreChecks(c),
          IF c.fJustCheck THEN StrictChecks(TxPool[c.tx].op, TxPool[c.tx].asset) ELSE Pass)

(***************************************************************************)
(* Record codec.  On the wire every field of a CAsset is a byte vector,    *)
(* the height an unsigned integer and the transaction hash a 256-bit blob. *)
(***************************************************************************)
Byte ==
    ("a" :> 97) @@ ("d" :> 100) @@ ("e" :> 101) @@ ("g" :> 103) @@ ("h" :> 104) @@
    ("i" :> 105) @@ ("n" :> 110) @@ ("o" :> 111) @@ ("p" :> 112) @@ ("r" :> 114) @@
    ("s" :> 115) @@ ("t" :> 116) @@ ("x" :> 120) @@ ("/" :> 47) @@ ("1" :> 49) @@
    ("2" :> 50) @@ ("A" :> 65) @@ ("B" :> 66) @@ ("G" :> 71) @@ ("W" :> 87) @@
    ("X" :> 88) @@ ("Z" :> 90)

\* vchFromString
Vch(s) == [i \in 1..Len(s) |-> Byte[s[i]]]

\* the byte vector of an asset id or alias name
VchFromId(id) == IF id = "" THEN << >> ELSE <<Byte[id]>>

HashWidth == 32

\* uint256 of a small number, least significant byte first
Uint256(n) == [i \in 1..HashWidth |-> IF i = 1 THEN n % 256 ELSE IF i = 2 THEN (n \div 256) % 256 ELSE 0]

\* a CAsset as its fields are held in memory and written to the stream
WireAsset(a) ==
    [vchAsset |-> VchFromId(a.vchAsset), vchAlias |-> VchFromId(a.vchAlias),
     vchName |-> Vch(a.vchName), vchPubData |-> Vch(a.vchPubData),
     sCategory |-> Vch(a.sCategory), vchLinkAlias |-> VchFromId(a.vchLinkAlias),
     nHeight |-> a.nHeight, txHash |-> Uint256(a.txHash)]

\* CAsset::SetNull
NullWire == WireAsset(NullAsset)

\* WriteCompactSize
WriteCompactSize(n) ==
    IF n < 253 THEN <<n>> ELSE <<253, n % 256, n \div 256>>

\* WriteVarInt: base-128 digits, most significant first, each but the last
\* with the continuation bit and an offset of one
RECURSIVE VarIntDigits(_, _)
VarIntDigits(n, last) ==
    LET digit == <<(n % 128) + (IF last THEN 0 ELSE 128)>>
    IN IF n <= 127
       THEN digit
       ELSE VarIntDigits((n \div 128) - 1, FALSE) \o digit

WriteVarInt(n) == VarIntDigits(n, TRUE)

WriteVector(v) == WriteCompactSize(Len(v)) \o v

\* the fields in stream order, with the way each is encoded
SerializationOp ==
    << [name |-> "vchAsset", kind |-> "vector"],
       [name |-> "vchAlias", kind |-> "vector"],
       [name |-> "vchName", kind |-> "vector"],
       [name |-> "vchPubData", kind |-> "vector"],
       [name |-> "sCategory", kind |-> "vector"],
       [name |-> "vchLinkAlias", kind |-> "vector"],
       [name |-> "nHeight", kind |-> "varint"],
       [name |-> "txHash", kind |-> "uint256"] >>

WriteField(kind, value) ==
    IF kind = "vector" THEN WriteVector(value)
    ELSE IF kind = "varint" THEN WriteVarInt(value)
    ELSE value

RECURSIVE WriteFields(_, _)
WriteFields(asset, fields) ==
    IF fields = << >>
    THEN << >>
    ELSE WriteField(Head(fields).kind, asset[Head(fields).name])
            \o WriteFields(asset, Tail(fields))

\* CAsset::Serialize
Serialize(asset) == WriteFields(asset, SerializationOp)

\* what a read hands back: the value and the bytes left, or the exception
ReadOk(val, rest) == [ok |-> TRUE, val |-> val, rest |-> rest]

ReadThrows == [ok |-> FALSE, val |-> << >>, rest |-> << >>]

\* ReadCompactSize; a size of 2^16 or more is more than a payload holds
ReadCompactSize(s) ==
    IF s = << >>
    THEN ReadThrows
    ELSE IF s[1] < 253
    THEN ReadOk(s[1], Tail(s))
    ELSE IF s[1] = 253 /\ Len(s) >= 3 /\ s[2] + 256 * s[3] >= 253
    THEN ReadOk(s[2] + 256 * s[3], SubSeq(s, 4, Len(s)))
    ELSE ReadThrows

ReadVector(s) ==
    LET size == ReadCompactSize(s)
    IN IF size.ok /\ Len(size.rest) >= size.val
       THEN ReadOk(SubSeq(size.rest, 1, size.val),
                   SubSeq(size.rest, size.val + 1, Len(size.rest)))
       ELSE ReadThrows

\* the largest value another base-128 digit can be appended to
VarIntLimit == 16777215

RECURSIVE ReadVarIntFrom(_, _)
ReadVarIntFrom(s, n) ==
    IF s = << >> \/ n > VarIntLimit
    THEN ReadThrows
    ELSE IF Head(s) >= 128
         THEN ReadVarIntFrom(Tail(s), n * 128 + (Head(s) % 128) + 1)
         ELSE ReadOk(n * 128 + Head(s), Tail(s))

ReadVarInt(s) == ReadVarIntFrom(s, 0)

ReadUint256(s) ==
    IF Len(s) >= HashWidth
    THEN ReadOk(SubSeq(s, 1, HashWidth), SubSeq(s, HashWidth + 1, Len(s)))
    ELSE ReadThrows

ReadField(kind, s) ==
    IF kind = "vector" THEN ReadVector(s)
    ELSE IF kind = "varint" THEN ReadVarInt(s)
    ELSE ReadUint256(s)

\* "dsAsset >> *this": the fields are assigned in stream order until one
\* read throws; bytes left over after the last field are not looked at
RECURSIVE ReadFields(_, _, _)
ReadFields(asset, fields, s) ==
    IF fields = << >>
    THEN [ok |-> TRUE, asset |-> asset]
    ELSE LET r == ReadField(Head(fields).kind, s)
         IN IF r.ok
            THEN ReadFields([asset EXCEPT ![Head(fields).name] = r.val],
                            Tail(fields), r.rest)
            ELSE [ok |-> FALSE, asset |-> asset]

Unserialize(asset, s) == ReadFields(asset, SerializationOp, s)

\* the hash of a byte string, narrowed to 15 bits: the polynomial
\* 7 * 31^n + (b1 + 1) * 31^(n-1) + ... + (bn + 1) modulo HashModulus,
\* evaluated by halves
HashModulus == 32768

RECURSIVE HashPower(_)
HashPower(k) ==
    IF k = 0
    THEN 1
    ELSE LET half == HashPower(k \div 2)
             square == (half * half) % HashModulus
         IN IF k % 2 = 0 THEN square ELSE (square * 31) % HashModulus

RECURSIVE HashRange(_, _, _)
HashRange(bytes, lo, hi) ==
    IF lo > hi
    THEN 0
    ELSE IF lo = hi
    THEN bytes[lo] + 1
    ELSE LET mid == (lo + hi) \div 2
         IN (HashRange(bytes, lo, mid) * HashPower(hi - mid)
                + HashRange(bytes, mid + 1, hi)) % HashModulus

Hash(bytes) ==
    (7 * HashPower(Len(bytes)) + HashRange(bytes, 1, Len(bytes))) % HashModulus

HexDigit(d) == IF d < 10 THEN 48 + d ELSE 87 + d

\* vchFromValue(hash.GetHex()): the hexadecimal digits as characters
GetHex(h) ==
    << HexDigit(h \div 4096), HexDigit((h \div 256) % 16),
       HexDigit((h \div 16) % 16), HexDigit(h % 16) >>

\* mutant: the binary hash, not its hexadecimal text, is compared
UnserializeFromDataBinaryHash(asset, vchData, vchHash) ==
    LET d == Unserialize(asset, vchData)
    IN IF ~d.ok
       THEN [ret |-> FALSE, asset |-> NullWire]
       ELSE IF <<Hash(Serialize(d.asset))>> # vchHash
       THEN [ret |-> FALSE, asset |-> NullWire]
       ELSE [ret |-> TRUE, asset |-> d.asset]

\* mutant: the record is not reset when decoding throws, and the
\* commitment is not compared
UnserializeFromDataUnchecked(asset, vchData, vchHash) ==
    LET d == Unserialize(asset, vchData)
    IN [ret |-> d.ok, asset |-> d.asset]

\* CAsset::UnserializeFromData on the object asset
UnserializeFromData(asset, vchData, vchHash) ==
    LET d == Unserialize(asset, vchData)
    IN IF ~d.ok
       THEN [ret |-> FALSE, asset |-> NullWire]
       ELSE IF GetHex(Hash(Serialize(d.asset))) # vchHash
       THEN [ret |-> FALSE, asset |-> NullWire]
       ELSE [ret |-> TRUE, asset |-> d.asset]

\* the auxiliary payload of a transaction and its commitment, as
\* GetSyscoinData finds them
Payload(hasData, vchData, vchHash) ==
    [hasData |-> hasData, vchData |-> vchData, vchHash |-> vchHash]

NoPayload == Payload(FALSE, << >>, << >>)

\* CAsset::UnserializeFromTx on the object asset
UnserializeFromTx(asset, tx) ==
    IF ~tx.hasData
    THEN [ret |-> FALSE, asset |-> NullWire]
    ELSE UnserializeFromData(asset, tx.vchData, tx.vchHash)

\* a node that has validated nothing yet, its mirror in the given mode
FreshNode(mode) ==
    [db |-> [cur |-> << >>, prev |-> << >>, lock |-> {}, aliasHist |-> {}, assetHist |-> {},
             mirror |-> mode],
     ret |-> TRUE, errorMessage |-> NoError]

FreshTwins == [mode \in MirrorModes \ {"up"} |-> FreshNode(mode)]

\* no payload is in flight
CodecIdle ==
    /\ sent = NullWire
    /\ payload = NoPayload
    /\ txAsset = NullWire
    /\ unserialized = FALSE
    /\ codecPc = "idle"

\* the values the script functions' results hold before any of them ran
NoDecodedScript == [ret |-> FALSE, op |-> 0, vvch |-> << >>, pc |-> 1]

NoStrippedScript == [ret |-> FALSE, scriptOut |-> << >>]

NoDecodedTx == [found |-> FALSE, op |-> 0, nOut |-> 0, vvch |-> << >>]

\* no transaction is being decoded
ScriptIdle ==
    /\ vout = << >>
    /\ decodedScript = NoDecodedScript
    /\ strippedScript = NoStrippedScript
    /\ decodedTx = NoDecodedTx
    /\ scriptPc = "idle"

\* no sweep thread is running
SweepIdle ==
    /\ sweepPc = "idle"
    /\ sweepKeys = << >>
    /\ sweepDue = FALSE
    /\ interruptRequested = FALSE
    /\ corrupt = {}

(***************************************************************************)
(* The state machine.                                                      *)
(***************************************************************************)
Init ==
    /\ cur = << >>
    /\ prev = << >>
    /\ lock = {}
    /\ aliasHist = {}
    /\ assetHist = {}
    /\ now = 0
    /\ nCalls = 0
    /\ ret = TRUE
    /\ errorMessage = NoError
    /\ returnedAt = 0
    /\ servicesCleaned = 0
    /\ twins = FreshTwins
    /\ CodecIdle
    /\ ScriptIdle
    /\ SweepIdle

\* the calls the host can make next
Offered == IF nCalls < MaxCalls THEN Calls ELSE {}

\* the host validates a transaction
Validate ==
    /\ \E c \in Offered : \E r \in {CheckAssetInputs(DB, c)} :
            /\ cur' = r.db.cur
            /\ prev' = r.db.prev
            /\ lock' = r.db.lock
            /\ aliasHist' = r.db.aliasHist
            /\ assetHist' = r.db.assetHist
            /\ ret' = r.ret
            /\ errorMessage' = r.errorMessage
            /\ returnedAt' = r.line
    /\ nCalls' = nCalls + 1
    /\ UNCHANGED <<now, servicesCleaned, twins, codecVars, scriptVars, sweepVars>>

\* some lease of the registry has not ended yet
LeasePending ==
    \E a \in DOMAIN AliasRegistry :
        AliasRegistry[a].hasUnprunable /\ now < AliasRegistry[a].nExpireTime

\* the chain tip advances and with it the median time; once every lease has
\* ended, more time changes nothing the validator or the store can observe
Tick ==
    /\ LeasePending
    /\ now' = now + 1
    /\ UNCHANGED <<cur, prev, lock, aliasHist, assetHist, nCalls, ret, errorMessage, returnedAt,
                   servicesCleaned, twins, codecVars, scriptVars, sweepVars>>

\* some stored id is due for erasure
SweepPending == \E id \in DOMAIN cur : SweepErases(DB, id)

\* the sweep runs to completion between two validations; a sweep that
\* finds nothing to erase changes nothing in the store
Cleanup ==
    /\ SweepPending
    /\ \E r \in {CleanupDatabase(DB, servicesCleaned)} :
            /\ cur' = r.db.cur
            /\ prev' = r.db.prev
            /\ lock' = r.db.lock
            /\ aliasHist' = r.db.aliasHist
            /\ assetHist' = r.db.assetHist
            /\ servicesCleaned' = r.servicesCleaned
            /\ ret' = r.ret
    /\ returnedAt' = 233
    /\ UNCHANGED <<now, nCalls, errorMessage, twins, codecVars, scriptVars, sweepVars>>

Next == Validate \/ Tick \/ Cleanup

Spec == Init /\ [][Next]_vars

(***************************************************************************)
(* The same machine started from a store in which the asset has history:   *)
(* X was activated by A in a block at height 1 and then updated by A in a  *)
(* block at the same height, so that previous(X) holds the activation      *)
(* record and current(X) the updated one.                                  *)
(***************************************************************************)
EmptyDB == [cur |-> << >>, prev |-> << >>, lock |-> {}, aliasHist |-> {}, assetHist |-> {},
            mirror |-> "up"]

SettledDB ==
    CheckAssetInputs(CheckAssetInputs(EmptyDB, PlainCall(1, FALSE, 1, FALSE)).db,
                     PlainCall(10, FALSE, 1, FALSE)).db

InitSettled ==
    /\ now = 0
    /\ nCalls = 0
    /\ cur = SettledDB.cur
    /\ prev = SettledDB.prev
    /\ lock = SettledDB.lock
    /\ aliasHist = SettledDB.aliasHist
    /\ assetHist = SettledDB.assetHist
    /\ ret = TRUE
    /\ errorMessage = NoError
    /\ returnedAt = 583
    /\ servicesCleaned = 0
    /\ twins = FreshTwins
    /\ CodecIdle
    /\ ScriptIdle
    /\ SweepIdle

SpecSettled == InitSettled /\ [][Next]_vars

(***************************************************************************)
(* The codec on its own: a record is serialized into a payload with its    *)
(* commitment, the payload may be damaged on the way, and a CAsset object  *)
(* is unserialized from what arrives.                                      *)
(***************************************************************************)
CatMax == AssetsPrefix \o Fill(MAX_NAME_LENGTH - Len(AssetsPrefix))

CodecHeights == {1, 300}

CodecTxHashes == {1, 700}

\* the valid records offered to the codec
CodecRecords ==
    { WireAsset(Asset("X", al, nm, pb, ct, ln, h, t)) :
        al \in {"A", "B"}, nm \in {<< >>, NameN1}, pb \in {<< >>, PubP1},
        ct \in {<< >>, CatAssets, CatMax}, ln \in {"", "B"},
        h \in CodecHeights, t \in CodecTxHashes }

\* the payload and commitment the sender builds for a record
PayloadOf(asset) == Payload(TRUE, Serialize(asset), GetHex(Hash(Serialize(asset))))

\* the ways a payload arrives other than as it was built
Damaged(p) ==
    { NoPayload,
      [p EXCEPT !.vchData = << >>],
      [p EXCEPT !.vchData = SubSeq(@, 1, Len(@) - 1)],
      [p EXCEPT !.vchData = SubSeq(@, 1, 3)],
      [p EXCEPT !.vchData = @ \o <<0>>],
      [p EXCEPT !.vchData[1] = @ + 1],
      [p EXCEPT !.vchData[Len(p.vchData)] = (@ + 1) % 256],
      [p EXCEPT !.vchHash[Len(p.vchHash)] = IF @ = 48 THEN 49 ELSE 48],
      [p EXCEPT !.vchHash = << >>] }

InitCodec ==
    /\ cur = << >>
    /\ prev = << >>
    /\ lock = {}
    /\ aliasHist = {}
    /\ assetHist = {}
    /\ now = 0
    /\ nCalls = 0
    /\ ret = TRUE
    /\ errorMessage = NoError
    /\ returnedAt = 0
    /\ servicesCleaned = 0
    /\ twins = FreshTwins
    /\ sent \in CodecRecords
    /\ payload = NoPayload
    /\ txAsset \in {NullWire, WireAsset(TxPool[2].asset)}
    /\ unserialized = FALSE
    /\ codecPc = "idle"
    /\ ScriptIdle
    /\ SweepIdle

\* the sender serializes the record and commits to it
BuildPayload ==
    /\ codecPc = "idle"
    /\ payload' = PayloadOf(sent)
    /\ codecPc' = "built"
    /\ UNCHANGED <<storeVars, scriptVars, sweepVars, sent, txAsset, unserialized>>

\* the payload is damaged before it arrives
Damage ==
    /\ codecPc = "built"
    /\ \E p \in Damaged(payload) : payload' = p
    /\ codecPc' = "damaged"
    /\ UNCHANGED <<storeVars, scriptVars, sweepVars, sent, txAsset, unserialized>>

\* the receiver calls UnserializeFromTx on its object
Receive ==
    /\ codecPc \in {"built", "damaged"}
    /\ \E r \in {UnserializeFromTx(txAsset, payload)} :
            /\ txAsset' = r.asset
            /\ unserialized' = r.ret
    /\ codecPc' = "done"
    /\ UNCHANGED <<storeVars, scriptVars, sweepVars, sent, payload>>

NextCodec == BuildPayload \/ Damage \/ Receive

SpecCodec == InitCodec /\ [][NextCodec]_vars

(***************************************************************************)
(* Vocabulary of the properties.                                           *)
(***************************************************************************)
OpOf(c) == TxPool[c.tx].op

Supplied(c) == TxPool[c.tx].asset

\* the call passes the structural checks and the rules on the supplied record
PassesChecks(c) ==
    /\ ~PreChecks(c).done
    /\ c.fJustCheck => ~StrictChecks(OpOf(c), Supplied(c)).done

\* what get(id) reports in this state
Stored(id) == GetAsset(DB, id, NullAsset)

\* the transaction that wrote a stored record
Writer(asset) == TxPool[asset.txHash]

\* the alias is registered and its record carries the accept-assets flag
TargetAccepts(vchAlias) ==
    /\ vchAlias \in DOMAIN AliasRegistry
    /\ AliasRegistry[vchAlias].acceptsAssets

HeightLines == {463, 511}

(***************************************************************************)
(* C1. Ownership monotonicity: in every step, the owner stored in          *)
(* current(id) of an existing, non-expired asset changes only when the     *)
(* record is written by a transfer whose target alias exists and accepts   *)
(* asset transfers.                                                        *)
(***************************************************************************)
C1_OwnerChangesOnlyByAcceptedTransfer ==
    [][\A id \in DOMAIN cur \cap DOMAIN cur' :
          (~IsExpired(cur[id]) /\ cur'[id].vchAlias # cur[id].vchAlias)
          => /\ Writer(cur'[id]).op = OP_ASSET_TRANSFER
             /\ TargetAccepts(Writer(cur'[id]).asset.vchLinkAlias)]_vars

(***************************************************************************)
(* C2. Uniform owner check: in every step, the current record of an        *)
(* existing asset is changed by an update or a transfer only if the        *)
(* transaction's declared owner is the owner stored before the step.       *)
(***************************************************************************)
C2_OnlyStoredOwnerUpdatesOrTransfers ==
    [][\A id \in DOMAIN cur \cap DOMAIN cur' :
          (/\ ~IsExpired(cur[id])
           /\ cur'[id] # cur[id]
           /\ Writer(cur'[id]).op \in {OP_ASSET_UPDATE, OP_ASSET_TRANSFER})
          => Writer(cur'[id]).asset.vchAlias = cur[id].vchAlias]_vars

(***************************************************************************)
(* C3. Successful transfer: for every call the host can make that is a     *)
(* transfer of an active asset declared by its stored owner, naming an     *)
(* existing alias that accepts asset transfers, at a height not lower than *)
(* the stored height (and not held up by the settlement lock), the current *)
(* record after the call has the target as owner and an empty link alias.  *)
(***************************************************************************)
C3_TransferMovesOwnership ==
    \A c \in Offered :
        LET id == Supplied(c).vchAsset
            target == Supplied(c).vchLinkAlias
        IN (/\ OpOf(c) = OP_ASSET_TRANSFER
            /\ PassesChecks(c)
            /\ ~c.dontaddtodb
            /\ Stored(id).ok
            /\ Stored(id).txPos.vchAlias = Supplied(c).vchAlias
            /\ TargetAccepts(target)
            /\ c.nHeight >= Stored(id).txPos.nHeight
            /\ id \notin lock)
           => \A r \in {CheckAssetInputs(DB, c)} :
              /\ r.db.cur[id].vchAlias = target
              /\ r.db.cur[id].vchLinkAlias = ""

C5_UpdateKeepsNameAndCarriesNone ==
    [][\A id \in DOMAIN cur \cap DOMAIN cur' :
          (cur'[id] # cur[id] /\ Writer(cur'[id]).op = OP_ASSET_UPDATE)
          => /\ cur'[id].vchName = cur[id].vchName
             /\ Writer(cur'[id]).asset.vchName = <<>>]_vars

(***************************************************************************)
(* C6. Height ordering: for every call the host can make on a stored,      *)
(* readable record of height h1, a validation height below h1 ends in      *)
(* accept with the height error and leaves current(id), previous(id) and   *)
(* the lock unchanged, in strict and in block mode, lock set or not; and a *)
(* validation height of h1 or more, with no lock set, is never refused on  *)
(* height grounds.                                                         *)
(***************************************************************************)
C6_HeightOrdering ==
    \A c \in Offered :
        LET id == Supplied(c).vchAsset
            st == Stored(id)
        IN (PassesChecks(c) /\ st.ok)
           => \A r \in {CheckAssetInputs(DB, c)} :
              /\ c.nHeight < st.txPos.nHeight
                 => /\ r.ret = TRUE
                    /\ r.line \in HeightLines
                    /\ r.errorMessage.code = 2026
                    /\ r.db.cur = cur
                    /\ r.db.prev = prev
                    /\ r.db.lock = lock
              /\ (c.nHeight >= st.txPos.nHeight /\ id \notin lock)
                 => r.line \notin HeightLines

\* a candidate older than the stored record has just been refused
C6_Witness ==
    /\ returnedAt = 511
    /\ errorMessage.code = 2026
    /\ "X" \in DOMAIN cur
    /\ cur["X"].nHeight > 1

(***************************************************************************)
(* C7. Same-height conflict: for every block-mode call the host can make   *)
(* while the lock of the asset is set, at the height of the stored record  *)
(* and with another transaction than the one stored, the candidate is not  *)
(* refused on height grounds, the reconciliation runs (the lock is         *)
(* cleared) and, if the candidate is applied, current(id) carries its hash.*)
(***************************************************************************)
C7_SameHeightConflictReconciles ==
    \A c \in Offered :
        LET id == Supplied(c).vchAsset
            st == Stored(id)
        IN (/\ PassesChecks(c)
            /\ ~c.fJustCheck
            /\ ~c.dontaddtodb
            /\ st.ok
            /\ id \in lock
            /\ st.txPos.nHeight = c.nHeight
            /\ st.txPos.txHash # c.tx)
           => \A r \in {CheckAssetInputs(DB, c)} :
              /\ r.line \notin HeightLines
              /\ id \notin r.db.lock
              /\ r.line = 583 => r.db.cur[id].txHash = c.tx

(***************************************************************************)
(* C8. Reconciliation with a differing hash: for every block-mode call the *)
(* host can make while the lock is set, above the stored height and with   *)
(* another transaction than the one stored, the lock is cleared, the       *)
(* history rows of the superseded transaction are gone, a candidate other  *)
(* than an activate is applied to the previous-version snapshot, and with  *)
(* no snapshot only an activate writes a record.                           *)
(***************************************************************************)
C8_ReconciliationWithDifferingHash ==
    \A c \in Offered :
        LET id == Supplied(c).vchAsset
            st == Stored(id)
            old == st.txPos.txHash
        IN (/\ PassesChecks(c)
            /\ ~c.fJustCheck
            /\ ~c.dontaddtodb
            /\ st.ok
            /\ id \in lock
            /\ st.txPos.nHeight < c.nHeight
            /\ old # c.tx)
           => \A r \in {CheckAssetInputs(DB, c)} :
              /\ id \notin r.db.lock
              /\ old \notin r.db.aliasHist
              /\ \A row \in r.db.assetHist : row.txid # old
              /\ (id \in DOMAIN prev /\ OpOf(c) # OP_ASSET_ACTIVATE /\ r.line = 583)
                 => /\ r.db.cur[id].vchName = prev[id].vchName
                    /\ r.db.prev[id] = prev[id]
              /\ (id \notin DOMAIN prev /\ OpOf(c) # OP_ASSET_ACTIVATE)
                 => r.db.cur = cur

(***************************************************************************)
(* C9. Idempotent re-validation.                                           *)
(***************************************************************************)
SameButHeight(a, b) == [a EXCEPT !.nHeight = 0] = [b EXCEPT !.nHeight = 0]

\* the calls that validate the transaction of c again
Again(c) == {c2 \in Calls : c2.tx = c.tx}

\* block-mode validation finds the lock set and the candidate's own hash stored
FindsOwnHash(c) ==
    /\ PassesChecks(c)
    /\ ~c.fJustCheck
    /\ ~c.dontaddtodb
    /\ Stored(Supplied(c).vchAsset).ok
    /\ Supplied(c).vchAsset \in lock
    /\ Stored(Supplied(c).vchAsset).txPos.txHash = c.tx

C10_ActivateNeverReplacesExisting ==
    [][\A id \in DOMAIN cur \cap DOMAIN cur' :
          (~IsExpired(cur[id]) /\ cur'[id] # cur[id])
          => Writer(cur'[id]).op # OP_ASSET_ACTIVATE]_vars

(***************************************************************************)
(* C11. Successful activation stores the supplied record: for every call   *)
(* the host can make that is an activate passing the activation rules for  *)
(* an id that get(id) reports absent (never stored, or stored but          *)
(* expired), the call succeeds and the record written as current(id) has   *)
(* the supplied id, owner, name, public data and category, an empty link   *)
(* alias, the validation height and the hash of the validated transaction. *)
(***************************************************************************)
C11_ActivationStoresSupplied ==
    \A c \in Offered :
        LET id == Supplied(c).vchAsset
        IN (/\ OpOf(c) = OP_ASSET_ACTIVATE
            /\ PassesChecks(c)
            /\ ~c.dontaddtodb
            /\ ~Stored(id).ok)
           => \A r \in {CheckAssetInputs(DB, c)} :
              /\ r.errorMessage = NoError
              /\ id \in DOMAIN r.db.cur
              /\ r.db.cur[id] = Stamp(Supplied(c), c.nHeight, c.tx)

(***************************************************************************)
(* C12. Update inheritance-on-omission.                                    *)
(***************************************************************************)
\* the written record against the record it is derived from
InheritsFrom(written, base, c) ==
    /\ written.vchPubData = IF Supplied(c).vchPubData # <<>>
                            THEN Supplied(c).vchPubData ELSE base.vchPubData
    /\ written.sCategory = IF Supplied(c).sCategory # <<>>
                           THEN Supplied(c).sCategory ELSE base.sCategory
    /\ written.vchName = base.vchName
    /\ written.vchAlias = base.vchAlias
    /\ written.nHeight = c.nHeight
    /\ written.txHash = c.tx

\* the stored record is under the settlement lock and block-mode validation
\* of c finds another transaction's hash in it
Supersedes(c) ==
    /\ ~c.fJustCheck
    /\ Supplied(c).vchAsset \in lock
    /\ Stored(Supplied(c).vchAsset).txPos.txHash # c.tx

\* the record an update is applied to
UpdateBase(c) ==
    IF Supersedes(c)
    THEN IF Supplied(c).vchAsset \in DOMAIN prev
         THEN prev[Supplied(c).vchAsset]
         ELSE NullAsset
    ELSE Stored(Supplied(c).vchAsset).txPos

\* C12 as claimed: for every call the host can make that is an update of a
\* stored, readable asset declared by its stored owner, if the update is
\* applied then the record written as current(id) has the supplied public
\* data if non-empty and otherwise the previously stored one, likewise the
\* category, the previously stored name and owner, and the height and
\* transaction hash of the update.
C12_UpdateInheritsFromStored ==
    \A c \in Offered :
        LET id == Supplied(c).vchAsset
        IN (/\ OpOf(c) = OP_ASSET_UPDATE
            /\ PassesChecks(c)
            /\ ~c.dontaddtodb
            /\ Stored(id).ok
            /\ Stored(id).txPos.vchAlias = Supplied(c).vchAlias)
           => \A r \in {CheckAssetInputs(DB, c)} :
              (r.line = 583 /\ r.errorMessage = NoError)
              => InheritsFrom(r.db.cur[id], Stored(id).txPos, c)

\* C12 as amended: the same, the omitted fields, the name and the owner
\* being those of the record the update is applied to: the stored record,
\* or the snapshot previous(id) when the update supersedes a locked record.
C12_UpdateInheritsFromBase ==
    \A c \in Offered :
        LET id == Supplied(c).vchAsset
        IN (/\ OpOf(c) = OP_ASSET_UPDATE
            /\ PassesChecks(c)
            /\ ~c.dontaddtodb
            /\ Stored(id).ok
            /\ UpdateBase(c).vchAlias = Supplied(c).vchAlias)
           => \A r \in {CheckAssetInputs(DB, c)} :
              (r.line = 583 /\ r.errorMessage = NoError)
              => InheritsFrom(r.db.cur[id], UpdateBase(c), c)

\* an update that omits its public data has just been applied in a block
C12_Witness ==
    /\ returnedAt = 583
    /\ errorMessage = NoError
    /\ "X" \in DOMAIN cur
    /\ "X" \in DOMAIN prev
    /\ "X" \notin lock
    /\ Writer(cur["X"]).op = OP_ASSET_UPDATE
    /\ Writer(cur["X"]).asset.vchPubData = <<>>
    /\ cur["X"].sCategory = CatNew
    /\ cur["X"].vchPubData = prev["X"].vchPubData
    /\ cur["X"].vchPubData # <<>>

(***************************************************************************)
(* C13. Structural pre-checks are hard failures.                           *)
(***************************************************************************)
\* the call has one of the structural defects
Defective(c) ==
    \/ ~c.versionOk
    \/ ~c.dataOk
    \/ c.fJustCheck /\ Len(c.vvchArgs) # 1
    \/ c.fJustCheck /\ c.vvchArgs[1] # c.tx
    \/ Supplied(c).vchAlias # c.vvchAliasArgs[1]

\* C13: for every call the host can make (other than the skipped coinbase)
\* whose transaction is not in the extended format, whose payload does not
\* deserialize or match its commitment, whose argument vector in strict
\* mode is not exactly the commitment hash, or whose alias argument is not
\* the declared owner, CheckAssetInputs returns reject and the store is as
\* it was.
C13_StructuralDefectsRejected ==
    \A c \in Offered :
        (~c.isCoinBase /\ Defective(c))
        => \A r \in {CheckAssetInputs(DB, c)} :
           /\ r.ret = FALSE
           /\ r.db = DB

(***************************************************************************)
(* C14. Business-rule violations are soft failures.                        *)
(***************************************************************************)
\* the call breaks one of the life-cycle rules of its operation
BreaksRule(c) ==
    LET a == Supplied(c)
        st == Stored(a.vchAsset)
    IN \/ Len(a.vchPubData) > MAX_VALUE_LENGTH
       \/ Len(a.sCategory) > MAX_NAME_LENGTH
       \/ /\ OpOf(c) = OP_ASSET_ACTIVATE
          /\ \/ a.vchLinkAlias # ""
             \/ a.vchName = <<>>
             \/ Len(a.vchName) > MAX_ID_LENGTH
             \/ ~IStartsWith(a.sCategory, AssetsPrefix)
             \/ st.ok
       \/ /\ OpOf(c) = OP_ASSET_UPDATE
          /\ \/ a.vchName # <<>>
             \/ a.sCategory # <<>> /\ ~IStartsWith(a.sCategory, AssetsPrefix)
       \/ /\ OpOf(c) = OP_ASSET_TRANSFER
          /\ ~TargetAccepts(a.vchLinkAlias)
       \/ /\ OpOf(c) \in {OP_ASSET_UPDATE, OP_ASSET_TRANSFER}
          /\ st.ok
          /\ st.txPos.vchAlias # a.vchAlias
       \/ /\ st.ok
          /\ c.nHeight < st.txPos.nHeight

\* C14: for every call the host can make that is structurally sound, is an
\* activate, update or transfer and breaks a life-cycle rule,
\* CheckAssetInputs returns accept with a non-empty error message.
C14_RuleViolationsAreSoft ==
    \A c \in Offered :
        (/\ ~PreChecks(c).done
         /\ OpOf(c) \in {OP_ASSET_ACTIVATE, OP_ASSET_UPDATE, OP_ASSET_TRANSFER}
         /\ BreaksRule(c))
        => \A r \in {CheckAssetInputs(DB, c)} :
           /\ r.ret = TRUE
           /\ r.errorMessage # NoError

(***************************************************************************)
(* C15. A soft failure produces no state change: for every call the host   *)
(* can make that ends in accept with an error message, current, previous,  *)
(* the settlement-lock markers and both histories are as before the call.  *)
(***************************************************************************)
C15_SoftFailureChangesNothing ==
    \A c \in Offered :
        \A r \in {CheckAssetInputs(DB, c)} :
            (r.ret = TRUE /\ r.errorMessage # NoError) => r.db = DB

(***************************************************************************)
(* C16. Lazy expiry on read: for every stored record and whatever the      *)
(* output record held before, GetAsset reports absent and leaves the       *)
(* output record null exactly when the median time is at or past the       *)
(* record's expiration, the bytes still being stored; otherwise it reports *)
(* present and the output record is the stored one.                        *)
(***************************************************************************)
C16_LazyExpiryOnRead ==
    \A id \in DOMAIN cur :
        \A out \in {NullAsset, TxPool[1].asset} :
            \A g \in {GetAsset(DB, id, out)} :
                IF now >= GetAssetExpiration(cur[id])
                THEN ~g.ok /\ g.txPos = NullAsset
                ELSE g.ok /\ g.txPos = cur[id]

\* a record whose lease has ended is still stored and reads back as absent
C16_Witness ==
    /\ "X" \in DOMAIN cur
    /\ now >= GetAssetExpiration(cur["X"])
    /\ ~GetAsset(DB, "X", TxPool[1].asset).ok
    /\ GetAsset(DB, "X", TxPool[1].asset).txPos = NullAsset

(***************************************************************************)
(* C17. Leaseless owners cannot keep assets alive.                         *)
(***************************************************************************)
\* the identity registry has an unprunable-expiration record for the alias
HasLease(vchAlias) ==
    /\ vchAlias \in DOMAIN AliasRegistry
    /\ AliasRegistry[vchAlias].hasUnprunable

\* C17: the expiration of a stored record is the lease end of its owner
\* when the registry has one and otherwise one tick past the median time;
\* and in every step in which the median time advances by a tick over a
\* stored record whose owner has no lease, the check made after the step
\* finds the record expired: get reports it absent and the sweep erases it.
C17_LeaselessExpireOnNextCheck ==
    [][\A id \in DOMAIN cur :
          /\ GetAssetExpiration(cur[id]) =
                IF HasLease(cur[id].vchAlias)
                THEN AliasRegistry[cur[id].vchAlias].nExpireTime
                ELSE now + 1
          /\ (now' = now + 1 /\ ~HasLease(cur[id].vchAlias))
             => /\ (~GetAsset(DB, id, NullAsset).ok)'
                /\ (id \notin DOMAIN CleanupDatabase(DB, servicesCleaned).db.cur)']_vars

(***************************************************************************)
(* C18. Sweep erases exactly the dead ids: in every reachable store, a     *)
(* CleanupDatabase run to completion returns true, erases every stored id  *)
(* that get reports absent, leaves the current and previous records, the   *)
(* lock and the history rows of every other id as they were, adds the      *)
(* number of erased ids to the counter, and leaves a store in which get    *)
(* succeeds for every id still stored.                                     *)
(***************************************************************************)
DeadIds == {id \in DOMAIN cur : ~Stored(id).ok}

C19_RecordRoundTrip ==
    (codecPc = "done" /\ payload = PayloadOf(sent))
    => /\ unserialized = TRUE
       /\ txAsset = sent

\* a record with a long category and a two-byte height has been received
\* as it was sent
C19_Witness ==
    /\ codecPc = "done"
    /\ payload = PayloadOf(sent)
    /\ unserialized = TRUE
    /\ txAsset = sent
    /\ Len(sent.sCategory) >= 253
    /\ sent.nHeight = 300
    /\ sent.vchAlias = VchFromId("A")

(***************************************************************************)
(* C20. Commitment integrity: whenever UnserializeFromTx has returned, it  *)
(* failed if the payload decodes to a record whose re-serialization hashes *)
(* to something other than the claimed hash; and if it failed, for a stale *)
(* hash, malformed bytes or a missing payload, the object is null.         *)
(***************************************************************************)
\* the payload decodes, and the claimed hash is not the hash of the decoded
\* record serialized again
StaleHash(p) ==
    /\ p.hasData
    /\ \E d \in {Unserialize(NullWire, p.vchData)} :
          d.ok /\ GetHex(Hash(Serialize(d.asset))) # p.vchHash

\* the bytes of the payload do not decode
Malformed(p) == p.hasData /\ ~Unserialize(NullWire, p.vchData).ok

C20_CommitmentIntegrity ==
    codecPc = "done"
    => /\ StaleHash(payload) => unserialized = FALSE
       /\ (StaleHash(payload) \/ Malformed(payload) \/ ~payload.hasData)
             => unserialized = FALSE
       /\ unserialized = FALSE => txAsset = NullWire

\* a payload that decodes arrived with a stale hash and was refused
C20_Witness ==
    /\ codecPc = "done"
    /\ StaleHash(payload)
    /\ unserialized = FALSE
    /\ txAsset = NullWire

(***************************************************************************)
(* Script codec.  A script is its bytes; pc is the position of the next    *)
(* byte to read, Len(script) + 1 being end().                              *)
(***************************************************************************)
OP_PUSHDATA1 == 76
OP_PUSHDATA2 == 77
OP_PUSHDATA4 == 78
OP_1 == 81
OP_16 == 96
OP_NOP == 97
OP_2DROP == 109
OP_DROP == 117
OP_DUP == 118
OP_HASH160 == 169
OP_INVALIDOPCODE == 255

\* the protocol tags carried as small integers
OP_SYSCOIN_ALIAS == 1
OP_SYSCOIN_ASSET == 5

AssetOps == <<OP_ASSET_ACTIVATE, OP_ASSET_UPDATE, OP_ASSET_TRANSFER, OP_ASSET_MINT>>

\* the operation a sub-operation number names
OpFromNumber(n) == IF n \in 1..Len(AssetOps) THEN AssetOps[n] ELSE "OP_UNKNOWN"

\* CScript::EncodeOP_N and CScript::DecodeOP_N for 1..16
EncodeOP_N(n) == OP_1 + n - 1

DecodeOP_N(opcode) == opcode - (OP_1 - 1)

\* what GetOp hands back: the opcode, its operand and the moved cursor
GotOp(ok, pc, opcode, vch) == [ok |-> ok, pc |-> pc, opcode |-> opcode, vch |-> vch]

\* the operand of a push whose size is known, read at pc
ReadOperand(script, pc, opcode, nSize) ==
    IF Len(script) + 1 - pc < nSize
    THEN GotOp(FALSE, pc, OP_INVALIDOPCODE, << >>)
    ELSE GotOp(TRUE, pc + nSize, opcode, SubSeq(script, pc, pc + nSize - 1))

\* CScript::GetOp
GetOp(script, pc) ==
    IF pc > Len(script)
    THEN GotOp(FALSE, pc, OP_INVALIDOPCODE, << >>)
    ELSE LET opcode == script[pc]
             at == pc + 1
             left == Len(script) + 1 - at
         IN IF opcode > OP_PUSHDATA4
            THEN GotOp(TRUE, at, opcode, << >>)
            ELSE IF opcode < OP_PUSHDATA1
            THEN ReadOperand(script, at, opcode, opcode)
            ELSE IF opcode = OP_PUSHDATA1
            THEN IF left < 1
                 THEN GotOp(FALSE, at, OP_INVALIDOPCODE, << >>)
                 ELSE ReadOperand(script, at + 1, opcode, script[at])
            ELSE IF opcode = OP_PUSHDATA2
            THEN IF left < 2
                 THEN GotOp(FALSE, at, OP_INVALIDOPCODE, << >>)
                 ELSE ReadOperand(script, at + 2, opcode,
                                  script[at] + 256 * script[at + 1])
            ELSE IF left < 4
                 THEN GotOp(FALSE, at, OP_INVALIDOPCODE, << >>)
                 ELSE IF script[at + 3] > 0
                 THEN GotOp(FALSE, at + 4, OP_INVALIDOPCODE, << >>)
                 ELSE ReadOperand(script, at + 4, opcode,
                                  script[at] + 256 * script[at + 1]
                                     + 65536 * script[at + 2])

\* the only opcode ending the argument list
IsDropOnly(opcode) == opcode = OP_DROP

IsDrop(opcode) == opcode = OP_DROP \/ opcode = OP_2DROP

\* what DecodeAssetScript hands back
Decoded(r, op, vvch, pc) == [ret |-> r, op |-> op, vvch |-> vvch, pc |-> pc]

\* lines 294-306: the argument pushes up to the first DROP or 2DROP
RECURSIVE ReadArguments(_, _, _, _)
ReadArguments(script, op, vvch, pc) ==
    LET g == GetOp(script, pc)
    IN IF ~g.ok
       THEN Decoded(FALSE, op, vvch, g.pc)
       ELSE IF IsDrop(g.opcode)
       THEN Decoded(TRUE, op, vvch, g.pc)
       ELSE IF ~(g.opcode >= 0 /\ g.opcode <= OP_PUSHDATA4)
       THEN Decoded(FALSE, op, vvch, g.pc)
       ELSE ReadArguments(script, op, Append(vvch, g.vch), g.pc)

\* lines 308-312: "move the pc to after any DROP or NOP"
RECURSIVE SkipDrops(_, _)
SkipDrops(script, pc) ==
    LET g == GetOp(script, pc)
    IN IF g.ok /\ IsDrop(g.opcode)
       THEN SkipDrops(script, g.pc)
       ELSE g.pc

\* where line 314 leaves the cursor
StepBack(pc) == pc - 1

\* DecodeAssetScript from the cursor pc, op holding opIn on entry
DecodeAssetScriptAt(script, opIn, pc) ==
    LET g1 == GetOp(script, pc)
    IN IF ~g1.ok
       THEN Decoded(FALSE, opIn, << >>, g1.pc)
       ELSE IF g1.opcode < OP_1 \/ g1.opcode > OP_16
       THEN Decoded(FALSE, opIn, << >>, g1.pc)
       ELSE IF DecodeOP_N(g1.opcode) # OP_SYSCOIN_ASSET
       THEN Decoded(FALSE, DecodeOP_N(g1.opcode), << >>, g1.pc)
       ELSE LET g2 == GetOp(script, g1.pc)
            IN IF ~g2.ok
               THEN Decoded(FALSE, DecodeOP_N(g1.opcode), << >>, g2.pc)
               ELSE IF g2.opcode < OP_1 \/ g2.opcode > OP_16
               THEN Decoded(FALSE, DecodeOP_N(g1.opcode), << >>, g2.pc)
               ELSE IF ~IsAssetOp(OpFromNumber(DecodeOP_N(g2.opcode)))
               THEN Decoded(FALSE, DecodeOP_N(g2.opcode), << >>, g2.pc)
               ELSE LET args == ReadArguments(script, DecodeOP_N(g2.opcode), << >>, g2.pc)
                    IN IF ~args.ret
                       THEN args
                       ELSE [args EXCEPT !.pc = StepBack(SkipDrops(script, args.pc))]

\* DecodeAssetScript from script.begin()
DecodeAssetScript(script, opIn) == DecodeAssetScriptAt(script, opIn, 1)

\* RemoveAssetScriptPrefix
RemoveAssetScriptPrefix(scriptIn) ==
    LET d == DecodeAssetScriptAt(scriptIn, 0, 1)
    IN IF ~d.ret
       THEN [ret |-> FALSE, scriptOut |-> << >>]
       ELSE [ret |-> TRUE, scriptOut |-> SubSeq(scriptIn, d.pc, Len(scriptIn))]

\* the scan taking the last matching output instead of the first
RECURSIVE ScanOutputsLast(_, _, _, _)
ScanOutputsLast(scripts, i, opIn, nOutIn) ==
    IF i > Len(scripts)
    THEN [found |-> FALSE, op |-> opIn, nOut |-> nOutIn, vvch |-> << >>]
    ELSE LET d == DecodeAssetScript(scripts[Len(scripts) + 1 - i], opIn)
         IN IF d.ret
            THEN [found |-> TRUE, op |-> d.op, nOut |-> Len(scripts) - i, vvch |-> d.vvch]
            ELSE ScanOutputsLast(scripts, i + 1, d.op, nOutIn)

\* DecodeAssetTx over the output scripts vout, op and nOut holding opIn and
\* nOutIn on entry; outputs are numbered from 0
RECURSIVE ScanOutputs(_, _, _, _)
ScanOutputs(scripts, i, opIn, nOutIn) ==
    IF i > Len(scripts)
    THEN [found |-> FALSE, op |-> opIn, nOut |-> nOutIn, vvch |-> << >>]
    ELSE LET d == DecodeAssetScript(scripts[i], opIn)
         IN IF d.ret
            THEN [found |-> TRUE, op |-> d.op, nOut |-> i - 1, vvch |-> d.vvch]
            ELSE ScanOutputs(scripts, i + 1, d.op, nOutIn)

DecodeAssetTx(scripts, opIn, nOutIn) == ScanOutputs(scripts, 1, opIn, nOutIn)

(***************************************************************************)
(* Scripts as the wallet builds them: a list of tokens, each an opcode or  *)
(* a data push, appended to the script's bytes by CScript::operator<<.     *)
(***************************************************************************)
OpTok(code) == [kind |-> "op", code |-> code, data |-> << >>]

\* a push of at most 75 bytes: its size is its opcode
PushTok(data) == [kind |-> "push", code |-> Len(data), data |-> data]

\* the same operand pushed with OP_PUSHDATA1
Push1Tok(data) == [kind |-> "push", code |-> OP_PUSHDATA1, data |-> data]

\* a push whose operand was cut short: the script ends inside it
CutTok == [kind |-> "cut", code |-> 5, data |-> <<1, 2>>]

TokenBytes(t) ==
    IF t.kind = "push" /\ t.code = OP_PUSHDATA1
    THEN <<OP_PUSHDATA1, Len(t.data)>> \o t.data
    ELSE <<t.code>> \o t.data

RECURSIVE ScriptOf(_)
ScriptOf(tokens) ==
    IF tokens = << >> THEN << >> ELSE TokenBytes(Head(tokens)) \o ScriptOf(Tail(tokens))

\* bounds of the scripts explored
MaxPushes == 2
MaxOutputs == 2

RECURSIVE SeqsUpTo(_, _)
SeqsUpTo(S, n) ==
    IF n = 0 THEN {<< >>}
    ELSE LET shorter == SeqsUpTo(S, n - 1)
         IN shorter \cup {Append(q, x) : q \in shorter, x \in S}

\* the first token: the asset tag, another service's tag, or no tag at all
TagTokens ==
    { OpTok(EncodeOP_N(OP_SYSCOIN_ASSET)), OpTok(EncodeOP_N(OP_SYSCOIN_ALIAS)),
      OpTok(OP_DUP), PushTok(<<OP_SYSCOIN_ASSET>>) }

\* the second token: the four operations, numbers naming none, no number
SubOpTokens ==
    { OpTok(EncodeOP_N(n)) : n \in 1..5 } \cup { OpTok(OP_16), OpTok(OP_NOP), PushTok(<<1>>) }

\* argument pushes; one operand is the byte that OP_DROP also is
ArgTokens == { PushTok(<< >>), PushTok(<<171, 205>>), Push1Tok(<<OP_DROP>>) }

ArgLists ==
    SeqsUpTo(ArgTokens, MaxPushes)
        \cup { <<OpTok(OP_NOP)>>, <<PushTok(<<171, 205>>), OpTok(OP_HASH160)>> }

Terminators ==
    { << >>, <<OpTok(OP_DROP)>>, <<OpTok(OP_2DROP)>>, <<OpTok(OP_2DROP), OpTok(OP_DROP)>>,
      <<OpTok(OP_DROP), OpTok(OP_2DROP), OpTok(OP_2DROP)>> }

\* what follows the prefix: the spend condition of the output
SpendConditions ==
    { << >>,
      <<OpTok(OP_DUP)>>,
      <<OpTok(OP_DUP), OpTok(OP_HASH160), PushTok(<<9, 8>>), OpTok(OP_NOP)>>,
      <<PushTok(<<OP_DROP>>), OpTok(OP_DUP)>>,
      <<Push1Tok(<<3, 4>>)>>,
      <<CutTok>> }

OutputScripts ==
    { <<tag, sub>> \o args \o term \o rest :
        tag \in TagTokens, sub \in SubOpTokens, args \in ArgLists,
        term \in Terminators, rest \in SpendConditions }
    \cup { <<OpTok(EncodeOP_N(OP_SYSCOIN_ASSET)), sub>> \o args \o <<CutTok>> :
              sub \in SubOpTokens, args \in ArgLists }
    \cup { << >>, <<OpTok(EncodeOP_N(OP_SYSCOIN_ASSET))>>, <<CutTok>>,
           <<OpTok(EncodeOP_N(OP_SYSCOIN_ASSET)), CutTok>> }

\* the outputs of the transactions with more than one output
ScanScripts ==
    { <<OpTok(OP_DUP), OpTok(OP_HASH160), PushTok(<<9, 8>>), OpTok(OP_NOP)>>,
      <<OpTok(EncodeOP_N(OP_SYSCOIN_ASSET)), OpTok(EncodeOP_N(1)), PushTok(<<171, 205>>),
        OpTok(OP_2DROP), OpTok(OP_DROP), OpTok(OP_DUP)>>,
      <<OpTok(EncodeOP_N(OP_SYSCOIN_ASSET)), OpTok(EncodeOP_N(3)), PushTok(<<7>>),
        PushTok(<< >>), OpTok(OP_2DROP)>>,
      <<OpTok(EncodeOP_N(OP_SYSCOIN_ASSET)), OpTok(EncodeOP_N(2)), PushTok(<<7>>)>>,
      <<OpTok(EncodeOP_N(OP_SYSCOIN_ALIAS)), OpTok(EncodeOP_N(2)), PushTok(<<7>>),
        OpTok(OP_2DROP)>> }

Transactions ==
    { <<s>> : s \in OutputScripts } \cup SeqsUpTo(ScanScripts, MaxOutputs + 1)

\* the scripts of the outputs, in index order
Scripts(outs) == [i \in 1..Len(outs) |-> ScriptOf(outs[i])]

InitScript ==
    /\ cur = << >>
    /\ prev = << >>
    /\ lock = {}
    /\ aliasHist = {}
    /\ assetHist = {}
    /\ now = 0
    /\ nCalls = 0
    /\ ret = TRUE
    /\ errorMessage = NoError
    /\ returnedAt = 0
    /\ servicesCleaned = 0
    /\ twins = FreshTwins
    /\ CodecIdle
    /\ vout \in Transactions
    /\ decodedScript = NoDecodedScript
    /\ strippedScript = NoStrippedScript
    /\ decodedTx = NoDecodedTx
    /\ scriptPc = "built"
    /\ SweepIdle

\* DecodeAssetScript(script, op, vvch) on the first output
DecodeScript ==
    /\ scriptPc = "built"
    /\ vout # << >>
    /\ decodedScript' = DecodeAssetScript(ScriptOf(vout[1]), decodedScript.op)
    /\ scriptPc' = "decoded"
    /\ UNCHANGED <<storeVars, codecVars, sweepVars, vout, strippedScript, decodedTx>>

\* RemoveAssetScriptPrefix on the first output
RemovePrefix ==
    /\ scriptPc = "built"
    /\ vout # << >>
    /\ strippedScript' = RemoveAssetScriptPrefix(ScriptOf(vout[1]))
    /\ scriptPc' = "stripped"
    /\ UNCHANGED <<storeVars, codecVars, sweepVars, vout, decodedScript, decodedTx>>

\* DecodeAssetTx on the transaction
ScanTx ==
    /\ scriptPc = "built"
    /\ decodedTx' = DecodeAssetTx(Scripts(vout), decodedTx.op, decodedTx.nOut)
    /\ scriptPc' = "scanned"
    /\ UNCHANGED <<storeVars, codecVars, sweepVars, vout, decodedScript, strippedScript>>

NextScript == DecodeScript \/ RemovePrefix \/ ScanTx

SpecScript == InitScript /\ [][NextScript]_vars

(***************************************************************************)
(* Vocabulary of the script claims, in terms of the tokens of a script.    *)
(***************************************************************************)
IsPushTok(t) == t.kind = "push"

IsDropTok(t) == t = OpTok(OP_DROP) \/ t = OpTok(OP_2DROP)

\* the numbers naming activate, update, transfer and mint
AssetOpNumbers == { n \in 1..16 : OpFromNumber(n) \in
                        {OP_ASSET_ACTIVATE, OP_ASSET_UPDATE, OP_ASSET_TRANSFER, OP_ASSET_MINT} }

\* tokens k of the script that are a drop reached through data pushes only
TerminatorAt(tokens, k) ==
    /\ k \in 3..Len(tokens)
    /\ IsDropTok(tokens[k])
    /\ \A j \in 3..(k - 1) : IsPushTok(tokens[j])

\* asset tag, operation number, data pushes, then DROP or 2DROP
IsAssetScript(tokens) ==
    /\ Len(tokens) >= 3
    /\ tokens[1] = OpTok(EncodeOP_N(OP_SYSCOIN_ASSET))
    /\ \E n \in AssetOpNumbers : tokens[2] = OpTok(EncodeOP_N(n))
    /\ \E k \in 3..Len(tokens) : TerminatorAt(tokens, k)

TerminatorOf(tokens) == CHOOSE k \in 3..Len(tokens) : TerminatorAt(tokens, k)

\* the values pushed between the operation number and the terminator
PushedValues(tokens) == [j \in 1..(TerminatorOf(tokens) - 3) |-> tokens[j + 2].data]

\* C21: decoding an output script succeeds exactly when its first token is
\* the small-integer opcode of the asset protocol, its second the small-
\* integer opcode of activate, update, transfer or mint, followed by zero or
\* more data pushes and then DROP or 2DROP; on success vvch holds the pushed
\* values in order and op the operation; every other script (unknown tag,
\* sub-operation out of range, a non-push before the terminator, no
\* terminator, a script ending inside a push) gives a plain false.
C21_ScriptDecodeExact ==
    scriptPc = "decoded" =>
        /\ decodedScript.ret = IsAssetScript(vout[1])
        /\ decodedScript.ret =>
              /\ decodedScript.vvch = PushedValues(vout[1])
              /\ vout[1][2] = OpTok(EncodeOP_N(decodedScript.op))

C21_Witness ==
    /\ scriptPc = "decoded"
    /\ decodedScript.ret
    /\ Len(decodedScript.vvch) = 2
    /\ decodedScript.vvch[2] = <<OP_DROP>>
    /\ vout[1][5] = OpTok(OP_2DROP)

\* the first token after the drops that end the argument list
RECURSIVE AfterDrops(_, _)
AfterDrops(tokens, k) ==
    IF k <= Len(tokens) /\ IsDropTok(tokens[k]) THEN AfterDrops(tokens, k + 1) ELSE k

\* the tokens that follow the prefix of an asset script
SpendCondition(tokens) ==
    SubSeq(tokens, AfterDrops(tokens, TerminatorOf(tokens)), Len(tokens))

\* C22: RemoveAssetScriptPrefix returns exactly the script that follows the
\* trailing drops of the prefix, whatever token comes next: a one-byte
\* opcode, a data push, or the end of the script.
C22_PrefixStripping ==
    (scriptPc = "stripped" /\ IsAssetScript(vout[1])) =>
        /\ strippedScript.ret
        /\ strippedScript.scriptOut = ScriptOf(SpendCondition(vout[1]))

\* the outputs of a transaction that carry an asset script, numbered from 0
AssetOutputs(outs) == { i \in 0..(Len(outs) - 1) : IsAssetScript(outs[i + 1]) }

Lowest(S) == CHOOSE i \in S : \A j \in S : i <= j

\* C23: DecodeAssetTx examines the outputs in index order and returns the
\* operation, the argument list and the index of the lowest-indexed output
\* whose script decodes; when no output decodes it reports not-found with an
\* empty argument list.
C23_TransactionScan ==
    scriptPc = "scanned" =>
        IF AssetOutputs(vout) = {}
        THEN ~decodedTx.found /\ decodedTx.vvch = << >>
        ELSE /\ decodedTx.found
             /\ decodedTx.nOut = Lowest(AssetOutputs(vout))
             /\ decodedTx.vvch = PushedValues(vout[decodedTx.nOut + 1])
             /\ vout[decodedTx.nOut + 1][2] = OpTok(EncodeOP_N(decodedTx.op))

\* two outputs decode and the first of them is not output 0
C23_Witness ==
    /\ scriptPc = "scanned"
    /\ decodedTx.found
    /\ decodedTx.nOut = 1
    /\ Cardinality(AssetOutputs(vout)) = 2
    /\ vout[2] # vout[3]

(***************************************************************************)
(* Mirror non-interference.  The node and its twins, which differ in the   *)
(* read-model mirror only, are handed the same calls in the same order.    *)
(***************************************************************************)
\* what a twin keeps of a CheckAssetInputs call
TwinAfter(r) == [db |-> r.db, ret |-> r.ret, errorMessage |-> r.errorMessage]

\* the host validates a transaction on the node and on its twins
ValidateMirrored ==
    /\ \E c \in Offered :
          /\ \E r \in {CheckAssetInputs(DB, c)} :
                /\ cur' = r.db.cur
                /\ prev' = r.db.prev
                /\ lock' = r.db.lock
                /\ aliasHist' = r.db.aliasHist
                /\ assetHist' = r.db.assetHist
                /\ ret' = r.ret
                /\ errorMessage' = r.errorMessage
                /\ returnedAt' = r.line
          /\ twins' = [mode \in DOMAIN twins |->
                          TwinAfter(CheckAssetInputs(twins[mode].db, c))]
    /\ nCalls' = nCalls + 1
    /\ UNCHANGED <<now, servicesCleaned, codecVars, scriptVars, sweepVars>>

\* the sweep runs on the node and on its twins
CleanupMirrored ==
    /\ SweepPending
    /\ \E r \in {CleanupDatabase(DB, servicesCleaned)} :
            /\ cur' = r.db.cur
            /\ prev' = r.db.prev
            /\ lock' = r.db.lock
            /\ aliasHist' = r.db.aliasHist
            /\ assetHist' = r.db.assetHist
            /\ servicesCleaned' = r.servicesCleaned
            /\ ret' = r.ret
    /\ twins' = [mode \in DOMAIN twins |->
                    LET r == CleanupDatabase(twins[mode].db, servicesCleaned)
                    IN [twins[mode] EXCEPT !.db = r.db, !.ret = r.ret]]
    /\ returnedAt' = 233
    /\ UNCHANGED <<now, nCalls, errorMessage, codecVars, scriptVars, sweepVars>>

NextMirror == ValidateMirrored \/ Tick \/ CleanupMirrored

SpecMirror == Init /\ [][NextMirror]_vars

\* C24: whether the read-model mirror is configured and answering,
\* configured and failing, or absent, CheckAssetInputs returns the same
\* value and error and leaves the same persistent store (current, previous,
\* lock and alias history rows).
C24_MirrorNonInterference ==
    \A mode \in DOMAIN twins :
        /\ twins[mode].ret = ret
        /\ twins[mode].errorMessage = errorMessage
        /\ twins[mode].db.cur = cur
        /\ twins[mode].db.prev = prev
        /\ twins[mode].db.lock = lock
        /\ twins[mode].db.aliasHist = aliasHist

\* two calls were accepted, the mirror of the node holds their rows and the
\* mirrors of the twins hold none
C24_Witness ==
    /\ nCalls = 2
    /\ returnedAt = 583
    /\ Cardinality(assetHist) = 2
    /\ "X" \in DOMAIN prev
    /\ \A mode \in DOMAIN twins : twins[mode].db.assetHist = {}

(***************************************************************************)
(* The sweep as its thread runs it: the interruption point of line 217,    *)
(* the read and test of lines 219-220 and the erase of lines 222-223 are   *)
(* separate steps, between which the host may validate a transaction, the  *)
(* chain tip may advance and another thread may ask the sweep to stop.     *)
(* A second asset, Y, stands in the store beside X.                        *)
(***************************************************************************)
OtherHash == Len(TxPool) + 1

\* Y as its activation by the given alias stored it
OtherAsset(owner) == Asset("Y", owner, NameN2, << >>, CatAssets, "", 1, OtherHash)

WithOther(db, owner) ==
    [db EXCEPT !.cur = Put(@, "Y", OtherAsset(owner)),
               !.aliasHist = @ \cup {OtherHash},
               !.assetHist = @ \cup {[txid |-> OtherHash, asset |-> "Y"]}]

\* the stores one validation leaves, without and with Y
SweepStores ==
    LET stores == {EmptyDB} \cup {CheckAssetInputs(EmptyDB, c).db : c \in PlainCalls}
    IN stores \cup {WithOther(d, owner) : d \in stores, owner \in DOMAIN AliasRegistry}

\* the host has one validation left to run
InitSweep ==
    /\ now = 0
    /\ nCalls = MaxCalls - 1
    /\ \E d \in SweepStores :
          /\ cur = d.cur
          /\ prev = d.prev
          /\ lock = d.lock
          /\ aliasHist = d.aliasHist
          /\ assetHist = d.assetHist
    /\ ret = TRUE
    /\ errorMessage = NoError
    /\ returnedAt = 0
    /\ servicesCleaned = 0
    /\ twins = FreshTwins
    /\ CodecIdle
    /\ ScriptIdle
    /\ sweepPc = "idle"
    /\ sweepKeys = << >>
    /\ sweepDue = FALSE
    /\ interruptRequested = FALSE
    /\ corrupt = {}

\* mutant: the loop never looks at the request
InterruptionPointNever(requested) == FALSE

\* boost::this_thread::interruption_point: throws when a request is pending
InterruptionPoint(requested) == requested

\* lines 212-213: the cursor is opened on the keys stored at that moment
SweepStart ==
    /\ sweepPc = "idle"
    /\ sweepKeys' = SelectSeq(KeyOrder, LAMBDA k : k \in DOMAIN cur)
    /\ sweepPc' = "check"
    /\ UNCHANGED <<storeVars, codecVars, scriptVars, sweepDue, interruptRequested, corrupt>>

\* line 216 with no key left: line 233
SweepReturn ==
    /\ sweepPc = "check"
    /\ sweepKeys = << >>
    /\ sweepPc' = "done"
    /\ ret' = TRUE
    /\ returnedAt' = 233
    /\ UNCHANGED <<cur, prev, lock, aliasHist, assetHist, now, nCalls, errorMessage,
                   servicesCleaned, twins, codecVars, scriptVars, sweepKeys, sweepDue,
                   interruptRequested, corrupt>>

\* lines 216-217: the interruption point before the key under the cursor;
\* thread_interrupted is no std::exception and leaves CleanupDatabase
SweepCheck ==
    /\ sweepPc = "check"
    /\ sweepKeys # << >>
    /\ IF InterruptionPoint(interruptRequested)
       THEN sweepPc' = "interrupted" /\ interruptRequested' = FALSE
       ELSE sweepPc' = "read" /\ UNCHANGED interruptRequested
    /\ UNCHANGED <<storeVars, codecVars, scriptVars, sweepKeys, sweepDue, corrupt>>

\* operator>> on the stored bytes of a key: throws std::ios_base::failure,
\* a std::exception, when they do not deserialize
Deserializes(bad, key) == key \notin bad

\* mutant: pcursor->Next() leaves the cursor where it is
CursorStays(keys) == keys

\* line 227, pcursor->Next(): the cursor moves past the key it stood on
CursorNext(keys) == Tail(keys)

\* lines 219-220: the record is read and tested; lines 229-231: a
\* deserialize error leaves CleanupDatabase through the catch block
SweepRead ==
    /\ sweepPc = "read"
    /\ IF Deserializes(corrupt, Head(sweepKeys))
       THEN /\ sweepDue' = SweepErases(DB, Head(sweepKeys))
            /\ sweepPc' = "erase"
            /\ UNCHANGED storeVars
       ELSE /\ sweepPc' = "failed"
            /\ ret' = FALSE
            /\ returnedAt' = 230
            /\ UNCHANGED <<cur, prev, lock, aliasHist, assetHist, now, nCalls, errorMessage,
                           servicesCleaned, twins, sweepDue>>
    /\ UNCHANGED <<codecVars, scriptVars, sweepKeys, interruptRequested, corrupt>>

\* lines 221-227: the erase, if the test asked for it, and pcursor->Next()
SweepErase ==
    /\ sweepPc = "erase"
    /\ \E d \in {IF sweepDue THEN EraseAsset(DB, Head(sweepKeys)) ELSE DB} :
          /\ cur' = d.cur
          /\ prev' = d.prev
          /\ lock' = d.lock
          /\ aliasHist' = d.aliasHist
          /\ assetHist' = d.assetHist
    /\ servicesCleaned' = IF sweepDue THEN servicesCleaned + 1 ELSE servicesCleaned
    /\ sweepKeys' = CursorNext(sweepKeys)
    /\ sweepPc' = "check"
    /\ UNCHANGED <<now, nCalls, ret, errorMessage, returnedAt, twins, codecVars, scriptVars,
                   sweepDue, interruptRequested, corrupt>>

\* another thread calls interrupt() on the sweep thread
Interrupt ==
    /\ sweepPc \in {"check", "read", "erase"}
    /\ ~interruptRequested
    /\ interruptRequested' = TRUE
    /\ UNCHANGED <<storeVars, codecVars, scriptVars, sweepPc, sweepKeys, sweepDue, corrupt>>

NextSweep ==
    \/ SweepStart \/ SweepCheck \/ SweepRead \/ SweepErase \/ SweepReturn
    \/ Interrupt \/ Validate \/ Tick

SpecSweep == InitSweep /\ [][NextSweep]_vars

\* the store and the cursor stay as they are
SweepHalted ==
    UNCHANGED <<cur, prev, lock, aliasHist, assetHist, servicesCleaned, sweepKeys, sweepDue>>

\* C25: CleanupDatabase checks for an interruption request before examining
\* each stored id: a sweep thread standing at that check with a request
\* pending reads and erases no further id, the ids it erased stay erased and
\* every other id is untouched.  (An id whose check the thread had already
\* passed when the request arrived is the id under examination, not a
\* further one.)
C25_SweepCancellation ==
    [][ /\ (sweepPc = "check" /\ interruptRequested /\ sweepPc' # sweepPc)
            => (sweepPc' \in {"interrupted", "done"} /\ SweepHalted)
        /\ sweepPc = "interrupted"
            => (sweepPc' = "interrupted" /\ UNCHANGED <<sweepKeys, servicesCleaned>>) ]_vars

\* the sweep erased X and was stopped before Y, which is due as well
C25_Witness ==
    /\ sweepPc = "interrupted"
    /\ servicesCleaned = 1
    /\ sweepKeys = <<"Y">>
    /\ "X" \notin DOMAIN cur
    /\ "Y" \in DOMAIN cur
    /\ SweepErases(DB, "Y")
    /\ nCalls = MaxCalls - 1

\* C26: the link alias, the transient field that names the target of a
\* transfer, is never persisted: every record stored under current(id) or
\* previous(id) has an empty link alias.
C26_LinkAliasNeverPersisted ==
    /\ \A id \in DOMAIN cur : cur[id].vchLinkAlias = ""
    /\ \A id \in DOMAIN prev : prev[id].vchLinkAlias = ""

\* the current record and the snapshot were both written by transfers,
\* which carried a link alias
C26_Witness ==
    /\ "X" \in DOMAIN cur
    /\ "X" \in DOMAIN prev
    /\ Writer(cur["X"]).op = OP_ASSET_TRANSFER
    /\ Writer(cur["X"]).asset.vchLinkAlias # ""
    /\ Writer(prev["X"]).op = OP_ASSET_TRANSFER
    /\ Writer(prev["X"]).asset.vchLinkAlias # ""

\* C27: in every reachable store every record stored as current(id) has an
\* asset id equal to its key, a non-empty name within the id length bound,
\* public data within its size bound and a category that begins with
\* "assets", whether the operations that wrote it were validated in strict
\* mode or in block mode only.
C27_StoredRecordsWellFormed ==
    \A id \in DOMAIN cur :
        /\ cur[id].vchAsset = id
        /\ cur[id].vchName # << >>
        /\ Len(cur[id].vchName) <= MAX_ID_LENGTH
        /\ Len(cur[id].vchPubData) <= MAX_VALUE_LENGTH
        /\ StartsWith(cur[id].sCategory, AssetsPrefix)

\* the rule a failed call reports on, named by its message; the two height
\* tests (lines 460 and 508) count as one rule
RuleOf(e, line) == IF line \in HeightLines THEN "height ordering" ELSE e.text

\* the code and the rule of every failure the calls on offer can end in
Failures ==
    { <<r.errorMessage.code, RuleOf(r.errorMessage, r.line)>> :
          r \in { CheckAssetInputs(DB, c) : c \in Offered } } \ { <<0, "">> }

\* C28: each distinct failure condition reported by CheckAssetInputs carries
\* its own error code: two calls that fail with the same ERRCODE were
\* refused by the same rule (so a height-ordering rejection and an owner
\* sign-off rejection never share a code).
C28_DistinctErrorCodes ==
    \A f, g \in Failures : f[1] = g[1] => f[2] = g[2]

\* the record get reports for the id under the cursor
UnderCursor == GetAsset(DB, Head(sweepKeys), NullAsset)

\* C29: the sweep's read of an id and its subsequent erase take effect as
\* one atomic step beside the validations of that id: the sweep never erases
\* a record that get would report present at the moment of the erase, so no
\* accepted write is lost.
C29_ReadModifyWriteAtomic ==
    [][ (sweepPc = "erase" /\ sweepPc' = "check" /\ sweepDue) => ~UnderCursor.ok ]_vars

\* C30: every CheckAssetInputs call made with dontaddtodb = true, for any
\* operation, mode, lock state and outcome, leaves current(id), previous(id),
\* the settlement-lock marker, the asset history and the alias activity
\* history unchanged.
C30_DryRunLeavesStoreUntouched ==
    \A c \in Offered : c.dontaddtodb =>
        \A r \in {CheckAssetInputs(DB, c)} :
            /\ r.db.cur = cur
            /\ r.db.prev = prev
            /\ r.db.lock = lock
            /\ r.db.assetHist = assetHist
            /\ r.db.aliasHist = aliasHist

\* under the settlement lock a block-mode dry run at a greater height finds
\* another transaction's hash stored, the case in which a real run rolls back
C30_Witness ==
    /\ "X" \in lock
    /\ "X" \in DOMAIN prev
    /\ \E c \in Offered :
          /\ c.dontaddtodb
          /\ ~c.fJustCheck
          /\ OpOf(c) = OP_ASSET_UPDATE
          /\ c.nHeight > cur["X"].nHeight
          /\ c.tx # cur["X"].txHash
          /\ CheckAssetInputs(DB, c).line = 583

\* C31: only activate, update and transfer are life-cycle transitions: a
\* transaction whose sub-operation is the other value the script codec
\* accepts, mint, never changes current(id) of any asset, in strict mode and
\* in block mode alike.
C31_MintChangesNothing ==
    \A c \in Offered : OpOf(c) = OP_ASSET_MINT =>
        \A r \in {CheckAssetInputs(DB, c)} : r.db.cur = cur


(***************************************************************************)
(* The sweep on its own thread, over stores of up to three ids some of     *)
(* whose stored bytes may be damaged.  The thread that entered             *)
(* CleanupDatabase keeps running: its steps are weakly fair.               *)
(***************************************************************************)
\* Z as its activation by alias A stored it
LastAsset == Asset("Z", "A", NameN1, << >>, CatAssets, "", 1, OtherHash + 1)

WithLast(db) ==
    [db EXCEPT !.cur = Put(@, "Z", LastAsset),
               !.aliasHist = @ \cup {OtherHash + 1},
               !.assetHist = @ \cup {[txid |-> OtherHash + 1, asset |-> "Z"]}]

\* the stores one validation leaves, without Y, with Y, and with Y and Z
FiniteStores ==
    LET stores == {EmptyDB} \cup {CheckAssetInputs(EmptyDB, c).db : c \in PlainCalls}
        others == {WithOther(d, "A") : d \in stores}
    IN stores \cup others \cup {WithLast(d) : d \in others}

\* the validations are over; any of Y and Z may be damaged on disk
InitTermination ==
    /\ now = 0
    /\ nCalls = MaxCalls
    /\ \E d \in FiniteStores :
          /\ cur = d.cur
          /\ prev = d.prev
          /\ lock = d.lock
          /\ aliasHist = d.aliasHist
          /\ assetHist = d.assetHist
    /\ ret = TRUE
    /\ errorMessage = NoError
    /\ returnedAt = 0
    /\ servicesCleaned = 0
    /\ twins = FreshTwins
    /\ CodecIdle
    /\ ScriptIdle
    /\ sweepPc = "idle"
    /\ sweepKeys = << >>
    /\ sweepDue = FALSE
    /\ interruptRequested = FALSE
    /\ corrupt \in SUBSET (DOMAIN cur \cap {"Y", "Z"})

\* one step of the thread inside CleanupDatabase
SweepStep == SweepCheck \/ SweepRead \/ SweepErase \/ SweepReturn

NextTermination == SweepStart \/ SweepStep \/ Interrupt \/ Tick

SpecTermination == InitTermination /\ [][NextTermination]_vars /\ WF_vars(SweepStep)

\* the keys the cursor has still to visit
Ahead == {sweepKeys[i] : i \in DOMAIN sweepKeys}

\* C32: over any finite store, and absent an interruption, CleanupDatabase
\* terminates.  Every loop iteration either moves the cursor to the next key
\* or returns; no key is visited twice (the keys ahead are distinct and the
\* key passed is dropped from them); the sweep returns true, at line 233,
\* only with no key left, and returns an error, at line 230, only on the
\* first key that fails to deserialize, every other damaged key still ahead.
C32_SweepTerminates ==
    /\ [](\A i, j \in DOMAIN sweepKeys : sweepKeys[i] = sweepKeys[j] => i = j)
    /\ [][ /\ (sweepPc = "erase" /\ sweepPc' # sweepPc)
               => (sweepPc' = "check" /\ sweepKeys' = Tail(sweepKeys))
           /\ (sweepPc # "idle" /\ sweepKeys' # sweepKeys)
               => (sweepPc = "erase" /\ Ahead' = Ahead \ {Head(sweepKeys)})
           /\ (sweepPc # "done" /\ sweepPc' = "done")
               => (sweepKeys = << >> /\ ret' = TRUE /\ returnedAt' = 233)
           /\ (sweepPc # "failed" /\ sweepPc' = "failed")
               => /\ Head(sweepKeys) \in corrupt
                  /\ corrupt \subseteq Ahead
                  /\ ret' = FALSE
                  /\ returnedAt' = 230
           /\ sweepPc \in {"done", "failed"} => sweepPc' = sweepPc ]_vars
    /\ ([]~interruptRequested => (sweepPc = "check" ~> sweepPc \in {"done", "failed"}))

\* the sweep erased two ids, met no damaged key and returned true
C32_Witness ==
    /\ sweepPc = "done"
    /\ servicesCleaned >= 2
    /\ ret
    /\ returnedAt = 233


(***************************************************************************)
(* The record view of the RPC layer: the two fields BuildAssetJson derives *)
(* from the expiration of the record.                                      *)
(***************************************************************************)
\* where a uint64_t turns negative as an int64_t.  The source's point is
\* 2^63, outside the integers TLC computes with; it is placed at 2^30,
\* as far above every time the chain of the model reaches.
Int64Wrap == 1073741824

\* line 872: int64_t expired_time = GetAssetExpiration(asset)
ToInt64(u) == IF u < Int64Wrap THEN u ELSE u - 2 * Int64Wrap

\* mutant: the view still shows a record at the instant its lease ends
ExpiredFlagLate(expired_time) == expired_time < now

\* lines 873-877
ExpiredFlag(expired_time) == expired_time <= now

BuildAssetJson(asset) ==
    LET expired_time == ToInt64(GetAssetExpiration(asset))
    IN [ret |-> TRUE, expires_on |-> expired_time, expired |-> ExpiredFlag(expired_time)]

\* C33: for every stored record and chain time, the view BuildAssetJson
\* builds has expires_on equal to the expiration of the record, and expired
\* true exactly when GetAsset reports the record absent by lazy expiry.
C33_ViewAgreesWithRead ==
    \A vchAsset \in DOMAIN cur :
        \A oAsset \in {BuildAssetJson(cur[vchAsset])} :
            /\ oAsset.ret
            /\ oAsset.expires_on = GetAssetExpiration(cur[vchAsset])
            /\ oAsset.expired <=> ~GetAsset(DB, vchAsset, NullAsset).ok

\* X is stored under the alias whose lease has ended: the view says expired
\* and the read path reports it absent
C33_Witness ==
    /\ "X" \in DOMAIN cur
    /\ cur["X"].vchAlias = "A"
    /\ now >= 1
    /\ BuildAssetJson(cur["X"]).expired
    /\ BuildAssetJson(cur["X"]).expires_on = 1
    /\ ~GetAsset(DB, "X", NullAsset).ok

====
